---- MODULE Spec2Model ----
(***************************************************************************)
(* Intent resolution pipeline of Confluence GPT.                           *)
(*                                                                         *)
(*   browser:  parseIntent / parseWithAI / parseWithRules  (lib/ai.ts)     *)
(*   server :  POST /api/ai  (app/api/ai/route.ts, current handler)        *)
(*             POST /api/auth/settings, settingsOps.upsert                 *)
(*                                                                         *)
(* Strings are TLA+ strings used as character sequences (Len, SubSeq, \o). *)
(* An optional JavaScript value (undefined / null / missing JSON key) is   *)
(* the empty tuple <<>>, a present string s is the one-element tuple <<s>>.*)
(* The emoji that open the headings of the generated templates are left    *)
(* out of the string literals; nothing in the code inspects them.          *)
(***************************************************************************)
EXTENDS Integers, Sequences, FiniteSets, TLC

(***************************************************************************)
(* String primitives (String.prototype.* as used by the code)              *)
(***************************************************************************)
UpperChars == "ABCDEFGHIJKLMNOPQRSTUVWXYZ"

LowerChars == "abcdefghijklmnopqrstuvwxyz"

\* s.charAt(i - 1): the empty string outside the string
Char(s, i) == IF i >= 1 /\ i <= Len(s) THEN SubSeq(s, i, i) ELSE ""

\* c.toLowerCase() and c.toUpperCase() of the letters, as lookup tables
LowerOf ==
  [c \in {Char(UpperChars, k) : k \in 1..26} |->
     Char(LowerChars, CHOOSE k \in 1..26 : Char(UpperChars, k) = c)]

UpperOf ==
  [c \in {Char(LowerChars, k) : k \in 1..26} |->
     Char(UpperChars, CHOOSE k \in 1..26 : Char(LowerChars, k) = c)]

LowerChar(c) == IF c \in DOMAIN LowerOf THEN LowerOf[c] ELSE c

UpperChar(c) == IF c \in DOMAIN UpperOf THEN UpperOf[c] ELSE c

RECURSIVE toLowerCase(_)
toLowerCase(s) ==
  IF Len(s) = 0 THEN ""
  ELSE IF Len(s) = 1 THEN LowerChar(s)
  ELSE toLowerCase(SubSeq(s, 1, Len(s) \div 2))
         \o toLowerCase(SubSeq(s, Len(s) \div 2 + 1, Len(s)))

\* \s of a JavaScript regular expression and the characters trim() strips
IsWhitespace(c) == c \in {" ", "\t", "\n", "\r"}

RECURSIVE trimStart(_)
trimStart(s) ==
  IF Len(s) > 0 /\ IsWhitespace(Char(s, 1)) THEN trimStart(Tail(s)) ELSE s

RECURSIVE trimEnd(_)
trimEnd(s) ==
  IF Len(s) > 0 /\ IsWhitespace(Char(s, Len(s)))
  THEN trimEnd(SubSeq(s, 1, Len(s) - 1)) ELSE s

trim(s) == trimEnd(trimStart(s))

\* does `sub` occur in s at (1-based) position i
OccursAt(s, i, sub) ==
  /\ i >= 1
  /\ i + Len(sub) - 1 <= Len(s)
  /\ SubSeq(s, i, i + Len(sub) - 1) = sub

includes(s, sub) == \E i \in 1..(Len(s) + 1) : OccursAt(s, i, sub)

\* first position of `sub` in s at or after `from`, 0 when there is none
indexOfFrom(s, sub, from) ==
  IF \E i \in from..(Len(s) + 1) : OccursAt(s, i, sub)
  THEN CHOOSE i \in from..(Len(s) + 1) :
         /\ OccursAt(s, i, sub)
         /\ \A j \in from..(i - 1) : ~OccursAt(s, j, sub)
  ELSE 0

lastIndexOf(s, sub) ==
  IF includes(s, sub)
  THEN CHOOSE i \in 1..(Len(s) + 1) :
         /\ OccursAt(s, i, sub)
         /\ \A j \in (i + 1)..(Len(s) + 1) : ~OccursAt(s, j, sub)
  ELSE 0

\* s.split(sep) for a non-empty separator
RECURSIVE split(_, _)
split(s, sep) ==
  LET k == indexOfFrom(s, sep, 1) IN
  IF k = 0 THEN <<s>>
  ELSE <<SubSeq(s, 1, k - 1)>> \o split(SubSeq(s, k + Len(sep), Len(s)), sep)

\* parts.join(sep)
RECURSIVE join(_, _)
join(parts, sep) ==
  IF Len(parts) = 0 THEN ""
  ELSE IF Len(parts) = 1 THEN parts[1]
  ELSE parts[1] \o sep \o join(Tail(parts), sep)

(***************************************************************************)
(* Backtracking regular-expression matcher, case-insensitive (flag i).     *)
(* A pattern is a sequence of elements:                                    *)
(*   <<"lit", s>>      the literal s, written in lower case                *)
(*   <<"ws">>          \s+            (greedy)                             *)
(*   <<"opt", p>>      (?:p)?         (greedy: with p first, then without) *)
(*   <<"alt", <<p1, .., pn>>>>        (?:p1|..|pn), in order               *)
(*   <<"cap", cls>>    (cls+?)        the capture group, lazy              *)
(*   <<"bos">>, <<"eos">>             ^ and $                              *)
(*   <<"wb">>          \b             (word boundary)                      *)
(* Character classes: "quote" = ["'], "title" = [^"'\n], "dot" = .         *)
(***************************************************************************)
InClass(c, cls) ==
  CASE cls = "quote" -> c \in {"\"", "'"}
    [] cls = "title" -> c \notin {"\"", "'", "\n"}
    [] cls = "dot"   -> c \notin {"\n", "\r"}

\* \w of a regular expression
WordChars ==
  { Char("abcdefghijklmnopqrstuvwxyzABCDEFGHIJKLMNOPQRSTUVWXYZ0123456789_", k) :
      k \in 1..63 }

\* \b holds just before position i of s
AtWordBoundary(s, i) ==
  (Char(s, i - 1) \in WordChars) # (Char(s, i) \in WordChars)

NoMatch == [ok |-> FALSE, end |-> 0, from |-> 0, to |-> 0]

RECURSIVE WsRun(_, _)
WsRun(s, i) ==
  IF i <= Len(s) /\ IsWhitespace(Char(s, i)) THEN 1 + WsRun(s, i + 1) ELSE 0

RECURSIVE MatchAt(_, _, _, _, _)
RECURSIVE MatchWs(_, _, _, _, _, _)
RECURSIVE MatchAlt(_, _, _, _, _, _, _)
RECURSIVE MatchCap(_, _, _, _, _)

\* match the elements `p` against s from position i, where s is the subject
\* in lower case and the literals of p are in lower case (flag i); from..to
\* is the capture group so far.  The first match in backtracking order is
\* returned.
MatchAt(p, s, i, from, to) ==
  IF Len(p) = 0 THEN [ok |-> TRUE, end |-> i, from |-> from, to |-> to]
  ELSE
    LET e    == Head(p)
        rest == Tail(p)
    IN CASE e[1] = "lit" ->
              IF OccursAt(s, i, e[2])
              THEN MatchAt(rest, s, i + Len(e[2]), from, to)
              ELSE NoMatch
         [] e[1] = "ws"  -> MatchWs(rest, s, i, WsRun(s, i), from, to)
         [] e[1] = "opt" ->
              LET orWithout(with) ==
                    IF with.ok THEN with ELSE MatchAt(rest, s, i, from, to)
              IN orWithout(MatchAt(e[2] \o rest, s, i, from, to))
         [] e[1] = "alt" -> MatchAlt(e[2], 1, rest, s, i, from, to)
         [] e[1] = "cls" ->
              IF i <= Len(s) /\ InClass(Char(s, i), e[2])
              THEN MatchAt(rest, s, i + 1, from, to)
              ELSE NoMatch
         [] e[1] = "cap" -> MatchCap(e[2], rest, s, i, 1)
         [] e[1] = "bos" ->
              IF i = 1 THEN MatchAt(rest, s, i, from, to) ELSE NoMatch
         [] e[1] = "eos" ->
              IF i = Len(s) + 1 THEN MatchAt(rest, s, i, from, to) ELSE NoMatch
         [] e[1] = "wb"  ->
              IF AtWordBoundary(s, i) THEN MatchAt(rest, s, i, from, to)
              ELSE NoMatch

\* \s+ : longest run first, giving back one character at a time
MatchWs(rest, s, i, n, from, to) ==
  IF n < 1 THEN NoMatch
  ELSE LET orShorter(r) ==
             IF r.ok THEN r ELSE MatchWs(rest, s, i, n - 1, from, to)
       IN orShorter(MatchAt(rest, s, i + n, from, to))

MatchAlt(alts, k, rest, s, i, from, to) ==
  IF k > Len(alts) THEN NoMatch
  ELSE LET orNextAlt(r) ==
             IF r.ok THEN r ELSE MatchAlt(alts, k + 1, rest, s, i, from, to)
       IN orNextAlt(MatchAt(alts[k] \o rest, s, i, from, to))

\* the number of characters of class cls from position i on
ClsRun(s, i, cls) ==
  LET stops == {k \in i..(Len(s) + 1) :
                  k > Len(s) \/ ~InClass(Char(s, k), cls)}
  IN (CHOOSE k \in stops : \A j \in stops : k <= j) - i

\* (cls+?) : shortest first, one more character on each backtrack; n is the
\* shortest length still to try
MatchCap(cls, rest, s, i, n) ==
  LET shortest(found) ==
        IF found = {} THEN NoMatch
        ELSE CHOOSE r \in found : \A q \in found : r.to <= q.to
  IN shortest({r \in {MatchAt(rest, s, i + k, i, i + k - 1) :
                        k \in n..ClsRun(s, i, cls)} : r.ok})

\* unanchored search from position i on: leftmost start position first
SearchFrom(p, s, i) ==
  LET leftmost(found) ==
        IF found = {} THEN NoMatch
        ELSE (CHOOSE r \in found : \A q \in found : r[1] <= q[1])[2]
      \* a pattern that opens with a literal can only match where it occurs
      starts == IF Len(p) > 0 /\ Head(p)[1] = "lit"
                THEN {k \in i..(Len(s) + 1) : OccursAt(s, k, Head(p)[2])}
                ELSE i..(Len(s) + 1)
  IN leftmost({r \in {<<k, MatchAt(p, s, k, 0, 0)>> : k \in starts} : r[2].ok})

\* s.match(p), given s in lower case as well: [ok, end, cap] with cap = match[1]
matchLower(s, lower, p) ==
  LET matchArray(r) ==
        [ok |-> r.ok, end |-> r.end,
         cap |-> IF r.ok /\ r.from > 0 THEN SubSeq(s, r.from, r.to) ELSE ""]
  IN matchArray(SearchFrom(p, lower, 1))

\* s.match(p)
match(s, p) == matchLower(s, toLowerCase(s), p)

\* p.test(s)
test(p, s) == match(s, p).ok

(***************************************************************************)
(* PATTERNS (lib/ai.ts)                                                    *)
(***************************************************************************)
Lit(s) == <<"lit", s>>

Ws == <<"ws">>

Opt(p) == <<"opt", p>>

Alt(ps) == <<"alt", ps>>

Cls(c) == <<"cls", c>>

Cap(c) == <<"cap", c>>

Bos == <<"bos">>

Eos == <<"eos">>

Wb == <<"wb">>

OptQuote == Opt(<<Cls("quote")>>)

PATTERNS_create ==
  << \* /create\s+(?:a\s+)?(?:new\s+)?(?:page\s+)?(?:called\s+|titled\s+|named\s+)?["']?([^"'\n]+?)["']?(?:\s+page)?$/i
     << Lit("create"), Ws, Opt(<<Lit("a"), Ws>>), Opt(<<Lit("new"), Ws>>),
        Opt(<<Lit("page"), Ws>>),
        Opt(<<Alt(<< <<Lit("called"), Ws>>, <<Lit("titled"), Ws>>,
                     <<Lit("named"), Ws>> >>)>>),
        OptQuote, Cap("title"), OptQuote, Opt(<<Ws, Lit("page")>>), Eos >>,
     \* /create\s+(?:a\s+)?(?:new\s+)?(.+?)\s+(?:page|notes|doc)/i
     << Lit("create"), Ws, Opt(<<Lit("a"), Ws>>), Opt(<<Lit("new"), Ws>>),
        Cap("dot"), Ws,
        Alt(<< <<Lit("page")>>, <<Lit("notes")>>, <<Lit("doc")>> >>) >>,
     \* /new\s+page\s+(?:called\s+|titled\s+)?["']?([^"'\n]+?)["']?$/i
     << Lit("new"), Ws, Lit("page"), Ws,
        Opt(<<Alt(<< <<Lit("called"), Ws>>, <<Lit("titled"), Ws>> >>)>>),
        OptQuote, Cap("title"), OptQuote, Eos >>,
     \* /make\s+(?:a\s+)?(?:page\s+)?(?:called\s+)?["']?([^"'\n]+?)["']?/i
     << Lit("make"), Ws, Opt(<<Lit("a"), Ws>>), Opt(<<Lit("page"), Ws>>),
        Opt(<<Lit("called"), Ws>>), OptQuote, Cap("title"), OptQuote >> >>

PATTERNS_search ==
  << \* /(?:find|search|look\s+for)\s+(?:pages?\s+)?(?:about\s+|mentioning\s+|with\s+)?["']?([^"'\n]+?)["']?$/i
     << Alt(<< <<Lit("find")>>, <<Lit("search")>>,
               <<Lit("look"), Ws, Lit("for")>> >>), Ws,
        Opt(<<Lit("page"), Opt(<<Lit("s")>>), Ws>>),
        Opt(<<Alt(<< <<Lit("about"), Ws>>, <<Lit("mentioning"), Ws>>,
                     <<Lit("with"), Ws>> >>)>>),
        OptQuote, Cap("title"), OptQuote, Eos >>,
     \* /(?:pages?\s+)?about\s+["']?([^"'\n]+?)["']?$/i
     << Opt(<<Lit("page"), Opt(<<Lit("s")>>), Ws>>), Lit("about"), Ws,
        OptQuote, Cap("title"), OptQuote, Eos >>,
     \* /where\s+(?:is|are)\s+(?:the\s+)?["']?([^"'\n]+?)["']?/i
     << Lit("where"), Ws, Alt(<< <<Lit("is")>>, <<Lit("are")>> >>), Ws,
        Opt(<<Lit("the"), Ws>>), OptQuote, Cap("title"), OptQuote >> >>

PATTERNS_spaces ==
  << \* /(?:list|show|get)\s+(?:all\s+)?spaces/i
     << Alt(<< <<Lit("list")>>, <<Lit("show")>>, <<Lit("get")>> >>), Ws,
        Opt(<<Lit("all"), Ws>>), Lit("spaces") >>,
     \* /(?:what|which)\s+spaces/i
     << Alt(<< <<Lit("what")>>, <<Lit("which")>> >>), Ws, Lit("spaces") >>,
     \* /available\s+spaces/i
     << Lit("available"), Ws, Lit("spaces") >> >>

PATTERNS_help ==
  << \* /^help$/i
     << Bos, Lit("help"), Eos >>,
     \* /what\s+can\s+you\s+do/i
     << Lit("what"), Ws, Lit("can"), Ws, Lit("you"), Ws, Lit("do") >>,
     \* /how\s+(?:do\s+i|to)\s+use/i
     << Lit("how"), Ws,
        Alt(<< <<Lit("do"), Ws, Lit("i")>>, <<Lit("to")>> >>), Ws,
        Lit("use") >> >>

\* /^(a|an|the)\s+/i
ArticlePattern ==
  << Bos, Alt(<< <<Lit("a")>>, <<Lit("an")>>, <<Lit("the")>> >>), Ws >>

(***************************************************************************)
(* Rule Matcher (lib/ai.ts)                                                *)
(***************************************************************************)
\* new Date().toLocaleDateString() for the days the clock can show
Dates == <<"11/2/2026", "11/3/2026">>

\* a ParsedIntent; confidence is in hundredths
Intent(type, title, content, query, space, answer, confidence) ==
  [type |-> type, title |-> title, content |-> content, query |-> query,
   space |-> space, answer |-> answer, confidence |-> confidence]

\* for (const pattern of patterns) { if (pattern.test(s)) ... }
AnyMatches(patterns, s) ==
  LET any(lower) ==
        \E k \in 1..Len(patterns) : SearchFrom(patterns[k], lower, 1).ok
  IN any(toLowerCase(s))

\* the match of the first pattern of the list that matches
FirstMatch(patterns, s) ==
  LET least(hits) == CHOOSE k \in hits : \A j \in hits : k <= j
      first(lower) ==
        matchLower(s, lower,
                   patterns[least({k \in 1..Len(patterns) :
                                     SearchFrom(patterns[k], lower, 1).ok})])
  IN first(toLowerCase(s))

\* variant: the words are left as typed
capitalize_asTyped(w) == w

\* w.charAt(0).toUpperCase() + w.slice(1)
capitalize(w) ==
  IF Len(w) = 0 THEN "" ELSE UpperChar(Char(w, 1)) \o Tail(w)

RECURSIVE mapCapitalize(_)
mapCapitalize(ws) ==
  IF Len(ws) = 0 THEN <<>>
  ELSE <<capitalize(Head(ws))>> \o mapCapitalize(Tail(ws))

\* title.replace(/^(a|an|the)\s+/i, "")
stripArticle(t) ==
  LET cut(m) == IF m.ok THEN SubSeq(t, m.end, Len(t)) ELSE t
  IN cut(match(t, ArticlePattern))

\* the three title steps of the create branch
ruleTitle(captured) ==
  join(mapCapitalize(split(stripArticle(trim(captured)), " ")), " ")

\* variant: the retro keyword is looked for before the meeting keyword
generateContent_retroFirst(title) ==
  LET template(lower) ==
      IF includes(lower, "retro")
      THEN "<h2>What Went Well</h2><ul><li>Item 1</li></ul><h2>What Could Improve</h2><ul><li>Item 1</li></ul><h2>Action Items</h2><ul><li>[ ] Action 1</li></ul>"
      ELSE IF includes(lower, "meeting")
      THEN "<h2>Attendees</h2><ul><li>Add attendees</li></ul><h2>Agenda</h2><ol><li>Topic 1</li></ol><h2>Notes</h2><p>Meeting notes...</p><h2>Action Items</h2><ul><li>[ ] Action 1</li></ul>"
      ELSE IF includes(lower, "status") \/ includes(lower, "weekly")
      THEN "<h2>Highlights</h2><ul><li>Highlight 1</li></ul><h2>In Progress</h2><ul><li>Task 1</li></ul><h2>Blockers</h2><ul><li>None</li></ul>"
      ELSE "<h2>" \o title \o "</h2><p>Content goes here...</p>"
  IN template(toLowerCase(title))

generateContent(title) ==
  LET template(lower) ==
      IF includes(lower, "meeting")
      THEN "<h2>Attendees</h2><ul><li>Add attendees</li></ul><h2>Agenda</h2><ol><li>Topic 1</li></ol><h2>Notes</h2><p>Meeting notes...</p><h2>Action Items</h2><ul><li>[ ] Action 1</li></ul>"
      ELSE IF includes(lower, "retro")
      THEN "<h2>What Went Well</h2><ul><li>Item 1</li></ul><h2>What Could Improve</h2><ul><li>Item 1</li></ul><h2>Action Items</h2><ul><li>[ ] Action 1</li></ul>"
      ELSE IF includes(lower, "status") \/ includes(lower, "weekly")
      THEN "<h2>Highlights</h2><ul><li>Highlight 1</li></ul><h2>In Progress</h2><ul><li>Task 1</li></ul><h2>Blockers</h2><ul><li>None</li></ul>"
      ELSE "<h2>" \o title \o "</h2><p>Content goes here...</p>"
  IN template(toLowerCase(title))

UnknownAnswer ==
  "I'm not sure what you mean. Try:\n- \"Create a page called [title]\"\n- \"Find pages about [topic]\"\n- \"List spaces\"\n\nEnable AI in settings for smarter understanding!"

\* the create branch, once a create pattern matched with capture `captured`
ruleCreate(captured, date) ==
  LET intent(title) ==
        Intent("create",
               <<(IF title # "" THEN title ELSE "New Page - " \o date)>>,
               <<generateContent(IF title # "" THEN title ELSE "New Page")>>,
               <<>>, <<>>, <<>>, 80)
  IN intent(ruleTitle(captured))

\* variant: the create patterns are tried before the spaces patterns
parseWithRules_createFirst(message, date) ==
  LET normalized == trim(message) IN
  IF AnyMatches(PATTERNS_help, normalized)
  THEN Intent("help", <<>>, <<>>, <<>>, <<>>, <<>>, 90)
  ELSE IF AnyMatches(PATTERNS_create, normalized)
  THEN ruleCreate(FirstMatch(PATTERNS_create, normalized).cap, date)
  ELSE IF AnyMatches(PATTERNS_spaces, normalized)
  THEN Intent("spaces", <<>>, <<>>, <<>>, <<>>, <<>>, 90)
  ELSE IF AnyMatches(PATTERNS_search, normalized)
  THEN Intent("search", <<>>, <<>>,
              <<trim(FirstMatch(PATTERNS_search, normalized).cap)>>,
              <<>>, <<>>, 80)
  ELSE Intent("unknown", <<>>, <<>>, <<>>, <<>>, <<UnknownAnswer>>, 30)

parseWithRules(message, date) ==
  LET normalized == trim(message) IN
  IF AnyMatches(PATTERNS_help, normalized)
  THEN Intent("help", <<>>, <<>>, <<>>, <<>>, <<>>, 90)
  ELSE IF AnyMatches(PATTERNS_spaces, normalized)
  THEN Intent("spaces", <<>>, <<>>, <<>>, <<>>, <<>>, 90)
  ELSE IF AnyMatches(PATTERNS_create, normalized)
  THEN ruleCreate(FirstMatch(PATTERNS_create, normalized).cap, date)
  ELSE IF AnyMatches(PATTERNS_search, normalized)
  THEN Intent("search", <<>>, <<>>,
              <<trim(FirstMatch(PATTERNS_search, normalized).cap)>>,
              <<>>, <<>>, 80)
  ELSE Intent("unknown", <<>>, <<>>, <<>>, <<>>, <<UnknownAnswer>>, 30)

(***************************************************************************)
(* JSON.parse, for the documents the model feeds it: objects whose values  *)
(* are strings, null or objects.  A parsed object is a function from its   *)
(* keys to [k |-> "str" | "obj", v |-> value]; a null member is dropped    *)
(* (null and undefined are both falsy and both read back as <<>>).         *)
(***************************************************************************)
JsonFail == [ok |-> FALSE, pos |-> 0, k |-> "null", v |-> ""]

skipWs(s, i) == i + WsRun(s, i)

RECURSIVE jsonString(_, _, _)
RECURSIVE jsonValue(_, _)
RECURSIVE jsonMembers(_, _, _)

\* the string whose opening quote is just before position i
jsonString(s, i, acc) ==
  IF i > Len(s) THEN JsonFail
  ELSE
    LET c == Char(s, i) IN
    IF c = "\"" THEN [ok |-> TRUE, pos |-> i + 1, k |-> "str", v |-> acc]
    ELSE IF c = "\\" THEN
      LET e == Char(s, i + 1) IN
      CASE e = "n"  -> jsonString(s, i + 2, acc \o "\n")
        [] e = "t"  -> jsonString(s, i + 2, acc \o "\t")
        [] e = "r"  -> jsonString(s, i + 2, acc \o "\r")
        [] e = "\"" -> jsonString(s, i + 2, acc \o "\"")
        [] e = "\\" -> jsonString(s, i + 2, acc \o "\\")
        [] e = "/"  -> jsonString(s, i + 2, acc \o "/")
        [] OTHER    -> JsonFail
    ELSE IF c \in {"\n", "\t", "\r"} THEN JsonFail   \* raw control character
    ELSE jsonString(s, i + 1, acc \o c)

jsonValue(s, i) ==
  LET j == skipWs(s, i) IN
  IF Char(s, j) = "\"" THEN jsonString(s, j + 1, "")
  ELSE IF Char(s, j) = "{" THEN
    LET j2 == skipWs(s, j + 1) IN
    IF Char(s, j2) = "}"
    THEN [ok |-> TRUE, pos |-> j2 + 1, k |-> "obj", v |-> <<>>]
    ELSE jsonMembers(s, j2, <<>>)
  ELSE IF OccursAt(s, j, "null")
  THEN [ok |-> TRUE, pos |-> j + 4, k |-> "null", v |-> ""]
  ELSE JsonFail

\* the members of an object from position i on; a repeated key: last wins
jsonMembers(s, i, acc) ==
  IF Char(s, i) # "\"" THEN JsonFail
  ELSE
    LET next(acc2, j2) ==
          IF Char(s, j2) = ","
          THEN jsonMembers(s, skipWs(s, j2 + 1), acc2)
          ELSE IF Char(s, j2) = "}"
          THEN [ok |-> TRUE, pos |-> j2 + 1, k |-> "obj", v |-> acc2]
          ELSE JsonFail
        withValue(key, val) ==
          IF ~val.ok THEN JsonFail
          ELSE next(IF val.k = "null"
                    THEN [x \in DOMAIN acc \ {key.v} |-> acc[x]]
                    ELSE (key.v :> [k |-> val.k, v |-> val.v]) @@ acc,
                    skipWs(s, val.pos))
        afterKey(key, j) ==
          IF Char(s, j) # ":" THEN JsonFail
          ELSE withValue(key, jsonValue(s, j + 1))
        withKey(key) ==
          IF ~key.ok THEN JsonFail ELSE afterKey(key, skipWs(s, key.pos))
    IN withKey(jsonString(s, i + 1, ""))

\* JSON.parse(s): [ok, k, v]; ~ok is a SyntaxError
JSON_parse(s) ==
  LET whole(r) ==
        IF r.ok /\ skipWs(s, r.pos) = Len(s) + 1 THEN r ELSE JsonFail
  IN whole(jsonValue(s, 1))

\* obj.key for a string member, <<>> when missing or null
Member(obj, key) ==
  IF key \in DOMAIN obj /\ obj[key].k = "str" THEN <<obj[key].v>> ELSE <<>>

\* obj.key is a nested object
IsObjectMember(obj, key) == key \in DOMAIN obj /\ obj[key].k = "obj"

\* x || dflt for an optional string x
OrElse(x, dflt) == IF x # <<>> /\ x[1] # "" THEN x[1] ELSE dflt

\* JSON.stringify(s) for a string, as the provider serialises its reply
RECURSIVE jsonEscape(_)
jsonEscape(s) ==
  IF Len(s) = 0 THEN ""
  ELSE LET c == Char(s, 1) IN
       (CASE c = "\n" -> "\\n"
          [] c = "\t" -> "\\t"
          [] c = "\r" -> "\\r"
          [] c = "\"" -> "\\\""
          [] c = "\\" -> "\\\\"
          [] OTHER    -> c) \o jsonEscape(Tail(s))

(***************************************************************************)
(* POST /api/ai (app/api/ai/route.ts): the pure parts of the handler       *)
(***************************************************************************)
\* a NextResponse as the caller's fetch sees it; `json` is FALSE when the
\* body is not JSON (only a gateway in front of the handler produces that)
Resp(status, error, type, title, content, query, space, answer, confidence) ==
  [status |-> status, json |-> TRUE, error |-> error, type |-> type,
   title |-> title, content |-> content, query |-> query, space |-> space,
   answer |-> answer, confidence |-> confidence]

\* NextResponse.json({ error }, { status })
ErrorResp(status, msg) ==
  Resp(status, <<msg>>, <<>>, <<>>, <<>>, <<>>, <<>>, <<>>, <<>>)

\* variant: a reply without a JSON object is answered with an error
ChatResp_asError(content) == ErrorResp(500, "No JSON found in response")

\* NextResponse.json({ type: "chat", answer: content, confidence: 0.9 })
ChatResp(content) ==
  Resp(200, <<>>, <<"chat">>, <<>>, <<>>, <<>>, <<>>, <<content>>, <<90>>)

NoResp == [status |-> 0, json |-> FALSE, error |-> <<>>, type |-> <<>>,
           title |-> <<>>, content |-> <<>>, query |-> <<>>, space |-> <<>>,
           answer |-> <<>>, confidence |-> <<>>]

\* response.ok
IsOk(r) == r.status >= 200 /\ r.status <= 299

isDocumentRequest(msg) ==
  \/ includes(msg, "DOCUMENT PROCESSING REQUEST")
  \/ includes(msg, "[User uploaded")
  \/ includes(msg, "Document content:")
  \/ includes(msg, "File content:")

\* which system prompt the request carries
systemPrompt(msg, mode) ==
  IF isDocumentRequest(msg) THEN "documentProcessingPrompt"
  ELSE IF mode = "chat" THEN "chatPrompt"
  ELSE "commandParsingPrompt"

\* temperature of the request, in hundredths
temperature(msg) == IF isDocumentRequest(msg) THEN 5 ELSE 20

max_tokens(msg) == IF isDocumentRequest(msg) THEN 16000 ELSE 2000

\* body of the fetch to a provider endpoint
providerRequestBody(msg, mode) ==
  [system      |-> systemPrompt(msg, mode),
   user        |-> msg,
   temperature |-> temperature(msg),
   max_tokens  |-> max_tokens(msg)]

\* s.replace(/<fence>\s*/g, ""); `fence` is given in lower case
RECURSIVE removeFence(_, _)
removeFence(s, fence) ==
  LET k == indexOfFrom(toLowerCase(s), fence, 1) IN
  IF k = 0 THEN s
  ELSE LET after == k + Len(fence) IN
       SubSeq(s, 1, k - 1)
         \o removeFence(SubSeq(s, after + WsRun(s, after), Len(s)), fence)

\* the markdown code fence; a TLA+ string literal cannot hold a backquote,
\* so the character ^ stands for it throughout
Fence == "^^^"

\* content.replace(/<Fence>json\s*/gi, "").replace(/<Fence>\s*/g, "")
stripFences(content) ==
  removeFence(removeFence(content, Fence \o "json"), Fence)

\* jsonStr.match(/\{[\s\S]*\}/): <<the span>>, or <<>> when there is none
jsonMatch(jsonStr) ==
  LET first == indexOfFrom(jsonStr, "{", 1)
      last  == lastIndexOf(jsonStr, "}")
  IN IF first > 0 /\ last > first
     THEN <<SubSeq(jsonStr, first, last)>> ELSE <<>>

ImportedTitle(date) == "Imported Document - " \o date

\* variant: the placeholder words are compared case-sensitively
isVagueTitle_caseSensitive(title) ==
  \/ includes(title, "for this")
  \/ title = "this"
  \/ title = "document"
  \/ title = "untitled"
  \/ Len(title) < 3

isVagueTitle(title) ==
  LET lower == toLowerCase(title) IN
  \/ includes(lower, "for this")
  \/ lower = "this"
  \/ lower = "document"
  \/ lower = "untitled"
  \/ Len(title) < 3

\* "Validate the title": let title = parsed.title || ""; if (title && ...)
validateTitle(parsedTitle, date) ==
  LET title == OrElse(parsedTitle, "") IN
  IF title # "" /\ isVagueTitle(title) THEN ImportedTitle(date) ELSE title

RECURSIVE mapParagraph(_)
mapParagraph(ps) ==
  IF Len(ps) = 0 THEN <<>>
  ELSE <<"<p>" \o trim(Head(ps)) \o "</p>">> \o mapParagraph(Tail(ps))

\* variant: every line becomes a paragraph
wrapContent_perLine(parsedContent) ==
  LET htmlContent == OrElse(parsedContent, "") IN
  IF htmlContent # "" /\ ~includes(htmlContent, "<")
  THEN join(mapParagraph(split(htmlContent, "\n")), "")
  ELSE htmlContent

\* "Validate and clean HTML content"
wrapContent(parsedContent) ==
  LET htmlContent == OrElse(parsedContent, "") IN
  IF htmlContent # "" /\ ~includes(htmlContent, "<")
  THEN join(mapParagraph(split(htmlContent, "\n\n")), "")
  ELSE htmlContent

PlaceholderContent == "<p>Page created via Confluence GPT.</p>"

\* "Ensure we have actual content for create operations"
ensureContent(parsedType, htmlContent) ==
  IF parsedType = <<"create">> /\ htmlContent = ""
  THEN PlaceholderContent ELSE htmlContent

\* parse mode, from the provider's text to the handler's response
parseModeResponse(content, date) ==
  LET respond(obj) ==
        Resp(200, <<>>,
             <<OrElse(Member(obj, "type"), "create")>>,
             <<validateTitle(Member(obj, "title"), date)>>,
             <<ensureContent(Member(obj, "type"), wrapContent(Member(obj, "content")))>>,
             Member(obj, "query"), Member(obj, "space"), Member(obj, "answer"),
             <<95>>)
      withParsed(parsed) ==
        IF ~parsed.ok THEN ChatResp(content)                  \* catch (parseError)
        ELSE IF IsObjectMember(parsed.v, "title") \/ IsObjectMember(parsed.v, "content")
        THEN ChatResp(content)  \* title.toLowerCase / htmlContent.split is not a function
        ELSE respond(parsed.v)
      withSpan(span) ==
        IF span = <<>> THEN ChatResp(content) ELSE withParsed(JSON_parse(span[1]))
  IN withSpan(jsonMatch(stripFences(content)))

\* the handler once the provider answered with a success status
successResponse(o, mode, date) ==
  IF ~o.parsable THEN ErrorResp(500, "Unexpected token in JSON")   \* outer catch
  ELSE IF Len(o.choices) = 0 \/ o.choices[1] = ""
  THEN ErrorResp(500, "No response from AI")
  ELSE IF mode = "chat"
  THEN Resp(200, <<>>, <<>>, <<>>, <<>>, <<>>, <<>>, <<o.choices[1]>>, <<>>)
  ELSE parseModeResponse(o.choices[1], date)

\* errorJson.error?.message of JSON.parse(lastError), else lastError itself
providerErrorMessage(lastErr) ==
  LET message(j) ==
        IF j.ok /\ j.k = "obj" /\ IsObjectMember(j.v, "error")
             /\ OrElse(Member(j.v["error"].v, "message"), "") # ""
        THEN Member(j.v["error"].v, "message")[1]
        ELSE lastErr
  IN message(JSON_parse(lastErr))

\* the handler once every endpoint failed; status is the last response's, 0 if none
failureResponse(lastErr, status) ==
  LET classify(errorMessage, lower) ==
        IF includes(lower, "invalid") \/ includes(lower, "authentication")
        THEN ErrorResp(401, "Invalid DeepSeek API key. Please check your key at platform.deepseek.com. Error: " \o errorMessage)
        ELSE ErrorResp(IF status # 0 THEN status ELSE 500,
                       "AI API error: " \o errorMessage)
      withMessage(errorMessage) == classify(errorMessage, toLowerCase(errorMessage))
  IN withMessage(providerErrorMessage(lastErr))

\* variant: a third endpoint to fall back to
endpoints_three ==
  << "https://api.deepseek.com/chat/completions",
     "https://api.deepseek.com/v1/chat/completions",
     "https://api.deepseek.com/beta/chat/completions" >>

\* the DeepSeek endpoints the handler tries in turn
endpoints ==
  << "https://api.deepseek.com/chat/completions",
     "https://api.deepseek.com/v1/chat/completions" >>

(***************************************************************************)
(* parseIntent / parseWithAI (lib/ai.ts): the pure parts                   *)
(***************************************************************************)
\* variant: the blank test without trim()
keyConfigured_noTrim(aiApiKey) == aiApiKey # <<>> /\ aiApiKey[1] # ""

\* if (aiApiKey && aiApiKey.trim())
keyConfigured(aiApiKey) == aiApiKey # <<>> /\ trim(aiApiKey[1]) # ""

\* variant: the catch block answers with a fixed intent instead of the rules
onAIFailure_fixedIntent(message, date) ==
  [rejected |-> FALSE,
   intent |-> <<Intent("unknown", <<>>, <<>>, <<>>, <<>>,
                       <<"AI request failed">>, 30)>>]

\* variant: the catch block rethrows
onAIFailure_rethrow(message, date) == [rejected |-> TRUE, intent |-> <<>>]

\* catch (error) { return parseWithRules(message); }
onAIFailure(message, date) ==
  [rejected |-> FALSE, intent |-> <<parseWithRules(message, date)>>]

\* the intent parseWithAI builds from a parsed success body without `error`
intentFromData(data) ==
  Intent(OrElse(data.type, "unknown"),
         data.title, data.content, data.query, data.space, data.answer,
         IF data.confidence # <<>> /\ data.confidence[1] # 0
         THEN data.confidence[1] ELSE 95)

\* does parseWithAI's try block throw on this response
responseThrows(r) ==
  \/ ~IsOk(r)                          \* throw new Error(errorData.error || ...)
  \/ ~r.json                           \* response.json() rejects
  \/ OrElse(r.error, "") # ""          \* throw new Error(data.error)

\* parseWithAI from the resolved fetch on
afterFetch(r, message, date) ==
  IF responseThrows(r) THEN onAIFailure(message, date)
  ELSE [rejected |-> FALSE, intent |-> <<intentFromData(r)>>]

(***************************************************************************)
(* handleSend (chat page): the context message built for parseIntent       *)
(* An uploaded file is [fileName, content]; no file is <<>>.               *)
(***************************************************************************)
\* /\b(this|it|that|the file|the document|the pdf|the content)\b/gi
vaguePatterns ==
  << << Wb,
        Alt(<< <<Lit("this")>>, <<Lit("it")>>, <<Lit("that")>>,
               <<Lit("the file")>>, <<Lit("the document")>>,
               <<Lit("the pdf")>>, <<Lit("the content")>> >>),
        Wb >> >>

\* fileName.replace(/\.[^/.]+$/, "")
fileBaseName(fileName) ==
  LET cut(k) ==
        IF k > 0 /\ k < Len(fileName)
             /\ ~includes(SubSeq(fileName, k + 1, Len(fileName)), "/")
        THEN SubSeq(fileName, 1, k - 1) ELSE fileName
  IN cut(lastIndexOf(fileName, "."))

\* the template of the branch `hasVagueReference || !userMessage`
documentTemplate(file) ==
  LET text(base) ==
        "DOCUMENT PROCESSING REQUEST\n\nIMPORTANT: Convert this ENTIRE document to a Confluence page. Include ALL content - do not summarize or skip anything.\n\n=== DOCUMENT TO CONVERT ===\nFile: "
        \o file.fileName \o "\nDefault title if none found: " \o base
        \o "\n\n--- FULL DOCUMENT CONTENT START ---\n" \o file.content
        \o "\n--- FULL DOCUMENT CONTENT END ---\n\n=== INSTRUCTIONS ===\n1. Create a Confluence page containing ALL the text from this document\n2. Include EVERY paragraph, EVERY list item, EVERY detail - nothing should be left out\n3. Format with HTML tags (h2, h3, p, ul, ol, li, table, etc.)\n4. Use a title from the document, or \""
        \o base
        \o "\" if no title is found\n5. DO NOT summarize - include the complete content\n\nReturn JSON: {\"type\": \"create\", \"title\": \"...\", \"content\": \"<full HTML content>\"}"
  IN text(fileBaseName(file.fileName))

\* the template of the else branch
\* variant: the instruction first, the document after it, no header lines
passThroughTemplate_bare(file, resolvedRequest) ==
  resolvedRequest \o "\n\n" \o file.fileName \o ":\n" \o file.content

passThroughTemplate(file, resolvedRequest) ==
  "[User uploaded file: " \o file.fileName \o "]\n\nFile content:\n"
    \o file.content \o "\n\n---\nUser request: " \o resolvedRequest

\* variant: the vague words are looked for as substrings, not as whole words
contextMessage_substring(userMessage, currentFile) ==
  IF currentFile = <<>> THEN userMessage
  ELSE IF userMessage = ""
          \/ \E w \in {"this", "it", "that", "the file", "the document",
                        "the pdf", "the content"} :
               includes(toLowerCase(userMessage), w)
       THEN documentTemplate(currentFile[1])
       ELSE passThroughTemplate(currentFile[1], userMessage)

\* contextMessage as handleSend leaves it for parseIntent
contextMessage(userMessage, currentFile) ==
  IF currentFile = <<>> THEN userMessage
  ELSE LET build(resolvedRequest) ==
             IF AnyMatches(vaguePatterns, resolvedRequest) \/ userMessage = ""
             THEN documentTemplate(currentFile[1])
             ELSE passThroughTemplate(currentFile[1], resolvedRequest)
       IN build(IF userMessage # "" THEN userMessage
                ELSE "Create a Confluence page from this document")

(***************************************************************************)
(* settingsOps.upsert (lib/db.ts): the ai_api_key column of the user's row *)
(* userSettings is <<>> while the user has no row, else <<ai_api_key>>,    *)
(* the column being <<>> for NULL                                          *)
(***************************************************************************)
upsert(row, ai_api_key) ==
  IF row # <<>>
  THEN IF ai_api_key # <<>> THEN <<ai_api_key>> ELSE row   \* COALESCE(?, ai_api_key)
  ELSE <<(IF OrElse(ai_api_key, "") # "" THEN ai_api_key ELSE <<>>)>>

(***************************************************************************)
(* Inputs                                                                  *)
(***************************************************************************)
\* what the user types into the chat box
Messages ==
  { "help",
    "list spaces",
    "create a page called list spaces",
    "how to use find pages",
    "create a page called project roadmap",
    "create ab",
    "make a page called roadmap",
    "find pages about budget",
    "hello there",
    "create \" \"",
    "create the sprint retro",
    "create weekly status",
    "create retro meeting" }

\* what the user types while a file may be attached
ChatInputs ==
  { "", "summarize it", "search for the budget numbers", "edit the page" }

\* uploadedFile: null, or the file the upload route returned
Files == { <<>>, <<[fileName |-> "q3.report.pdf", content |-> "Budget: 10"]>> }

\* isAIConfigured ? aiSettings.apiKey : undefined
SendKeys == { <<>>, <<" sk-1 ">> }

\* body.ai.apiKey of a request to /api/auth/settings: absent, or a key
SettingsKeys == { <<>>, <<" sk-1 ">> }

\* U+200B ZERO WIDTH SPACE; a TLA+ string literal cannot hold it, so the
\* character ~ stands for it throughout
ZWSP == "~"

\* message and apiKey of a request some other client posts
PostMessages == { "File content:\nBudget: 10" }

PostKeys == { <<>>, <<ZWSP>>, <<"sk-1">> }

\* the values aiSettings.apiKey / the key field of the settings dialog take
KeyInputs == { "", "  ", " sk-1 " }

\* parseIntent's second argument: undefined, or a key string
ApiKeys == {<<>>} \cup { <<k>> : k \in KeyInputs }

\* texts the provider's model answers with
Replies ==
  { "Sure, I can help with that.",
    "{\"type\":\"create\",\"title\":\"Roadmap\",\"content\":\"<h2>Plan</h2>\"}",
    "^^^json\n{\"type\":\"search\",\"query\":\"budget\"}\n^^^",
    "{\"title\":\"Notes\"}",
    "{\"type\":\"create\",\"title\":\"\",\"content\":\"one\\n\\ntwo\"}",
    "{\"type\":\"create\",\"title\":\"Untitled\"}",
    "{\"type\":\"delete\",\"title\":\"ab\"}",
    "{\"type\":\"create\",\"title\":\"Notes for this\",\"content\":\" a \\n\\n\\n\\nb\"}",
    "{\"type\":\"create\",\"title\":\"this\",\"content\":\"x < y\"}",
    "{\"type\":\"chat\",\"answer\":\"Hi\"}",
    "Here you go: {\"type\":\"create\" oops}",
    "{\"type\":\"spaces\"}" }

\* what one request to a provider endpoint can come back with
Outcome(kind, status, text, parsable, choices) ==
  [kind |-> kind, status |-> status, text |-> text, parsable |-> parsable,
   choices |-> choices]

FailureOutcomes ==
  { Outcome("network", 0, "fetch failed", FALSE, <<>>),
    Outcome("http", 401, "{\"error\":{\"message\":\"Authentication Fails\"}}", FALSE, <<>>),
    Outcome("http", 500, "upstream unavailable", FALSE, <<>>),
    Outcome("http", 400, "{\"error\":{\"message\":\"Invalid request body\"}}", FALSE, <<>>) }

SuccessOutcomes ==
  { Outcome("http", 200, "", FALSE, <<>>),          \* body is not JSON
    Outcome("http", 200, "", TRUE, <<>>) }          \* choices: []
  \cup { Outcome("http", 200, "", TRUE, <<r>>) : r \in Replies }

ProviderOutcomes == FailureOutcomes \cup SuccessOutcomes

(***************************************************************************)
(* State                                                                   *)
(***************************************************************************)
VARIABLES
  pc,               \* "idle", "proxy" (request on its way to /api/ai),
                    \* "provider" (handler awaits a provider endpoint),
                    \* "responded" (NextResponse on its way back), "done"
  caller,           \* "none", "parseIntent" or "testAI"
  message,          \* parseIntent's message argument
  aiApiKey,         \* parseIntent's aiApiKey argument
  request,          \* body of the request to /api/ai
  endpointIdx,      \* index into endpoints of the attempt in flight
  lastError,        \* handler local
  lastStatus,       \* status of handler local `response`, 0 while null
  response,         \* what the caller's fetch resolves to
  fetchRejected,    \* the caller's fetch rejected (no response at all)
  result,           \* <<ParsedIntent>> once parseIntent resolved
  rejected,         \* parseIntent's promise rejected
  aiRequests,       \* requests this call sent to /api/ai
  providerRequests, \* requests the handler sent to the provider
  aiText,           \* <<choices[0].message.content>> of the provider's answer
  serverSawKey,     \* API keys this call delivered to the application's server
  userSettings,     \* user_settings row of the signed-in user
  clock,            \* today, as an index into Dates
  dateRead,         \* the value of clock when the code last read the date
  aiTestStatus,     \* settings dialog: "idle", "testing", "success", "error"
  userMessage,      \* handleSend: <<input.trim()>>, <<>> outside handleSend
  currentFile,      \* handleSend: <<the uploaded file>>, <<>> when there is none
  lastAttempt       \* <<[kind, status] of the latest provider attempt of this
                    \* call, answered: some attempt of it got an HTTP response>>

(***************************************************************************)
(* Chat history: the conversations and messages tables and the last        *)
(* response of a /api/chat route                                           *)
(***************************************************************************)
VARIABLES
  conversations,    \* rows of table conversations: [id, user_id, title]
  messagesTable,    \* rows of table messages in insertion order:
                    \* [id, conversation_id, role, content, action_status]
  rowIds,           \* [conversations, messages]: the last AUTOINCREMENT id
  historyResponse   \* [user, status, rows]: the caller a /api/chat route
                    \* answered last, its status and the rows in its body

historyVars == <<conversations, messagesTable, rowIds, historyResponse>>

NoHistoryResponse == [user |-> 0, status |-> 0, rows |-> {}]

InitHistory ==
  /\ conversations = {}
  /\ messagesTable = <<>>
  /\ rowIds = [conversations |-> 0, messages |-> 0]
  /\ historyResponse = NoHistoryResponse

(***************************************************************************)
(* Sessions: the sessions table, the server's time and the outcome of the  *)
(* latest getCurrentUser()                                                 *)
(***************************************************************************)
VARIABLES
  sessions,         \* rows of table sessions: [id, user_id, token, expires_at]
  sessionSeq,       \* the last AUTOINCREMENT id of table sessions
  now,              \* the server's time, in seconds
  authResult,       \* [token, user] of the getCurrentUser() call just made:
                    \* user 0 for null; token <<>> when no call was just made
  revoked           \* <<token, id>> of every session row a logout deleted

sessionVars == <<sessions, sessionSeq, now, authResult, revoked>>

NoAuthResult == [token |-> <<>>, user |-> 0]

InitSessions ==
  /\ sessions = {}
  /\ sessionSeq = 0
  /\ now = 0
  /\ authResult = NoAuthResult
  /\ revoked = {}

(***************************************************************************)
(* Chat page: the React state of HomePage, the handleSend invocations in   *)
(* progress and the requests they have in flight                           *)
(***************************************************************************)
VARIABLES
  messages,               \* useState<Message[]>: [id, role, content, action]
  input,                  \* useState("")
  uploadedFile,           \* useState<UploadedFile | null>: <<>> or <<file>>
  isLoading,              \* useState(false)
  currentConversationId,  \* useState<number | null>: 0 for null
  isConfigured,           \* useAuth(): Confluence settings are saved
  sends,                  \* the handleSend invocations that passed the guards:
                          \* [pc, convId, userMessage, currentFile, title,
                          \*  content, space, assistantMsg]
  inflight,               \* saveMessage requests not yet handled by the
                          \* server: [send, conversationId, role, content, status]
  createPageCalls         \* arguments of every apiClient.createPage call

chatVars ==
  <<messages, input, uploadedFile, isLoading, currentConversationId,
    isConfigured, sends, inflight, createPageCalls>>

\* the welcome message, which is never saved nor updated, is left out of the list
InitChat ==
  /\ messages = <<>>
  /\ input = ""
  /\ uploadedFile = <<>>
  /\ isLoading = FALSE
  /\ currentConversationId = 0
  /\ isConfigured = FALSE
  /\ sends = <<>>
  /\ inflight = {}
  /\ createPageCalls = {}

\* the variables of the chat history, the chat page and the sessions
laterVars == <<historyVars, sessionVars, chatVars>>

InitLater == InitHistory /\ InitSessions /\ InitChat

vars ==
  << pc, caller, message, aiApiKey, request, endpointIdx, lastError,
     lastStatus, response, fetchRejected, result, rejected, aiRequests,
     providerRequests, aiText, serverSawKey, userSettings, clock, dateRead,
     aiTestStatus, userMessage, currentFile, lastAttempt, laterVars >>

\* the variables of a parseIntent / testAI call and of the /api/ai handler
callVars ==
  << pc, caller, message, aiApiKey, request, endpointIdx, lastError,
     lastStatus, response, fetchRejected, result, rejected, aiRequests,
     providerRequests, aiText, serverSawKey, userSettings, clock, dateRead,
     aiTestStatus, userMessage, currentFile, lastAttempt >>

NoRequest == [message |-> "", apiKey |-> <<>>, mode |-> "none"]

Init ==
  /\ pc = "idle"
  /\ caller = "none"
  /\ message = ""
  /\ aiApiKey = <<>>
  /\ request = NoRequest
  /\ endpointIdx = 0
  /\ lastError = ""
  /\ lastStatus = 0
  /\ response = NoResp
  /\ fetchRejected = FALSE
  /\ result = <<>>
  /\ rejected = FALSE
  /\ aiRequests = 0
  /\ providerRequests = 0
  /\ aiText = <<>>
  /\ serverSawKey = {}
  /\ userSettings = <<>>
  /\ clock = 1
  /\ dateRead = 1
  /\ aiTestStatus = "idle"
  /\ userMessage = <<>>
  /\ currentFile = <<>>
  /\ lastAttempt = <<>>
  /\ InitLater

serverVars ==
  <<endpointIdx, lastError, lastStatus, providerRequests, aiText, serverSawKey,
    lastAttempt>>

pageVars == <<userMessage, currentFile>>

(***************************************************************************)
(* Browser                                                                 *)
(***************************************************************************)
\* parseIntent(m, k), up to the fetch of parseWithAI or to the rule result
parseIntentCall(m, k) ==
  /\ pc = "idle"
  /\ caller' = "parseIntent"
  /\ message' = m
  /\ aiApiKey' = k
  /\ IF keyConfigured(k)
     THEN /\ request' = [message |-> m, apiKey |-> k, mode |-> "parse"]
          /\ aiRequests' = aiRequests + 1
          /\ pc' = "proxy"
          /\ UNCHANGED <<result, dateRead>>
     ELSE /\ result' = <<parseWithRules(m, Dates[clock])>>
          /\ dateRead' = clock
          /\ pc' = "done"
          /\ UNCHANGED <<request, aiRequests>>
  /\ UNCHANGED <<serverVars, response, fetchRejected, rejected, userSettings,
                 clock, aiTestStatus>>

\* parseIntent called on its own
parseIntent(m, k) == parseIntentCall(m, k) /\ UNCHANGED <<pageVars, laterVars>>

\* handleSend of the chat page, from the click to the await of parseIntent;
\* k is `isAIConfigured ? aiSettings.apiKey : undefined`
handleSend(inp, file, k) ==
  /\ trim(inp) # "" \/ file # <<>>
  /\ userMessage' = <<trim(inp)>>
  /\ currentFile' = file
  /\ parseIntentCall(contextMessage(trim(inp), file), k)
  /\ UNCHANGED laterVars

\* some other HTTP client posts { message, apiKey, mode } to /api/ai
PostAI(m, k, mode) ==
  /\ pc = "idle"
  /\ caller' = "client"
  /\ request' = [message |-> m, apiKey |-> k, mode |-> mode]
  /\ aiRequests' = aiRequests + 1
  /\ pc' = "proxy"
  /\ UNCHANGED <<message, aiApiKey, serverVars, response, fetchRejected,
                 result, rejected, userSettings, clock, dateRead, aiTestStatus,
                 pageVars, laterVars>>

\* testAI of the settings dialog; the button is disabled while the field is empty
testAI(k) ==
  /\ pc = "idle"
  /\ k # ""
  /\ caller' = "testAI"
  /\ aiTestStatus' = "testing"
  /\ request' = [message |-> "Say hello in one word", apiKey |-> <<trim(k)>>,
                 mode |-> "parse"]
  /\ aiRequests' = aiRequests + 1
  /\ pc' = "proxy"
  /\ UNCHANGED <<message, aiApiKey, serverVars, response, fetchRejected,
                 result, rejected, userSettings, clock, dateRead, pageVars, laterVars>>

\* the caller's continuation once its fetch settled
settle(r, didReject) ==
  /\ pc' = "done"
  /\ fetchRejected' = didReject
  /\ IF caller = "parseIntent"
     THEN LET resolve(out) == /\ result' = out.intent
                                  /\ rejected' = out.rejected
          IN /\ resolve(IF didReject THEN onAIFailure(message, Dates[clock])
                        ELSE afterFetch(r, message, Dates[clock]))
             /\ dateRead' = IF didReject \/ responseThrows(r) THEN clock ELSE dateRead
             /\ UNCHANGED aiTestStatus
     ELSE IF caller = "testAI"
     THEN /\ aiTestStatus' = IF ~didReject /\ r.json /\ IsOk(r)
                             THEN "success" ELSE "error"
          /\ UNCHANGED <<result, rejected, dateRead>>
     ELSE UNCHANGED <<result, rejected, dateRead, aiTestStatus>>

\* fetch("/api/ai") rejects: the request never reaches the server
ProxyUnreachable ==
  /\ pc = "proxy"
  /\ settle(NoResp, TRUE)
  /\ UNCHANGED <<caller, message, aiApiKey, request, serverVars, response,
                 aiRequests, userSettings, clock, pageVars, laterVars>>

\* a gateway in front of the handler answers with a body that is not JSON
GatewayError(status) ==
  /\ pc = "proxy"
  /\ response' = [NoResp EXCEPT !.status = status]
  /\ pc' = "responded"
  /\ UNCHANGED <<caller, message, aiApiKey, request, serverVars,
                 fetchRejected, result, rejected, aiRequests, userSettings,
                 clock, dateRead, aiTestStatus, pageVars, laterVars>>

\* the response arrives at the caller
ClientReceive ==
  /\ pc = "responded"
  /\ settle(response, FALSE)
  /\ UNCHANGED <<caller, message, aiApiKey, request, serverVars, response,
                 aiRequests, userSettings, clock, pageVars, laterVars>>

\* the next call starts from a fresh page state
Reset ==
  /\ pc = "done"
  /\ pc' = "idle"
  /\ caller' = "none"
  /\ message' = ""
  /\ aiApiKey' = <<>>
  /\ request' = NoRequest
  /\ endpointIdx' = 0
  /\ lastError' = ""
  /\ lastStatus' = 0
  /\ response' = NoResp
  /\ fetchRejected' = FALSE
  /\ result' = <<>>
  /\ rejected' = FALSE
  /\ aiRequests' = 0
  /\ providerRequests' = 0
  /\ aiText' = <<>>
  /\ dateRead' = clock
  /\ aiTestStatus' = "idle"
  /\ serverSawKey' = {}
  /\ userMessage' = <<>>
  /\ currentFile' = <<>>
  /\ lastAttempt' = <<>>
  /\ UNCHANGED <<userSettings, clock, laterVars>>

(***************************************************************************)
(* Server                                                                  *)
(***************************************************************************)
\* POST /api/ai from the request's arrival to the first provider fetch
ServerReceive ==
  /\ pc = "proxy"
  /\ serverSawKey' = serverSawKey \cup
       (IF OrElse(request.apiKey, "") # "" THEN {request.apiKey[1]} ELSE {})
  /\ LET apiKey == IF request.apiKey = <<>> THEN "" ELSE trim(request.apiKey[1]) IN
     IF apiKey = ""
     THEN /\ response' = ErrorResp(400, "No API key provided")
          /\ pc' = "responded"
          /\ UNCHANGED <<endpointIdx, providerRequests>>
     ELSE /\ endpointIdx' = 1
          /\ providerRequests' = providerRequests + 1
          /\ pc' = "provider"
          /\ UNCHANGED response
  /\ UNCHANGED <<caller, message, aiApiKey, request, lastError, lastStatus,
                 aiText, fetchRejected, result, rejected, aiRequests,
                 userSettings, clock, dateRead, aiTestStatus, pageVars, laterVars,
                 lastAttempt>>

\* the endpoint in flight answers (or the fetch throws); the handler runs on
\* to its next fetch or to its NextResponse
ProviderRespond(o) ==
  /\ pc = "provider"
  /\ lastAttempt' =
       <<[kind |-> o.kind, status |-> o.status,
          answered |-> o.kind = "http"
                         \/ (lastAttempt # <<>> /\ lastAttempt[1].answered)]>>
  /\ IF o.kind = "http" /\ IsOk(o)
     THEN /\ response' = successResponse(o, request.mode, Dates[clock])
          /\ aiText' = IF o.parsable /\ Len(o.choices) > 0
                       THEN <<o.choices[1]>> ELSE <<>>
          /\ dateRead' = clock
          /\ pc' = "responded"
          /\ endpointIdx' = 0      \* the handler returned: its locals are gone
          /\ lastError' = ""
          /\ lastStatus' = 0
          /\ UNCHANGED providerRequests
     ELSE LET err    == o.text
              status == IF o.kind = "http" THEN o.status ELSE lastStatus
          IN IF endpointIdx < Len(endpoints)
             THEN /\ lastError' = err
                  /\ lastStatus' = status
                  /\ endpointIdx' = endpointIdx + 1
                  /\ providerRequests' = providerRequests + 1
                  /\ UNCHANGED <<response, pc, dateRead, aiText>>
             ELSE /\ response' = failureResponse(err, status)
                  /\ pc' = "responded"
                  /\ endpointIdx' = 0
                  /\ lastError' = ""
                  /\ lastStatus' = 0
                  /\ UNCHANGED <<providerRequests, dateRead, aiText>>
  /\ UNCHANGED <<caller, message, aiApiKey, request, fetchRejected, result,
                 rejected, aiRequests, serverSawKey, userSettings, clock,
                 aiTestStatus, pageVars, laterVars>>

\* POST /api/auth/settings of the signed-in user with body.ai.apiKey = k
SaveSettings(k) ==
  /\ userSettings' = upsert(userSettings, k)
  /\ userSettings' # userSettings
  /\ UNCHANGED <<pc, caller, message, aiApiKey, request, serverVars, response,
                 fetchRejected, result, rejected, aiRequests, clock, dateRead,
                 aiTestStatus, pageVars, laterVars>>

\* midnight passes
Tick ==
  /\ clock < Len(Dates)
  /\ clock' = clock + 1
  /\ UNCHANGED <<pc, caller, message, aiApiKey, request, serverVars, response,
                 fetchRejected, result, rejected, aiRequests, userSettings,
                 dateRead, aiTestStatus, pageVars, laterVars>>

Next ==
  \/ \E m \in Messages, k \in ApiKeys : parseIntent(m, k)
  \/ \E inp \in ChatInputs, file \in Files, k \in SendKeys :
       handleSend(inp, file, k)
  \/ \E k \in KeyInputs : testAI(k)
  \/ \E m \in PostMessages, k \in PostKeys, mode \in {"chat", "parse"} :
       PostAI(m, k, mode)
  \/ ProxyUnreachable
  \/ \E st \in {200, 504} : GatewayError(st)
  \/ ServerReceive
  \/ \E o \in ProviderOutcomes : ProviderRespond(o)
  \/ ClientReceive
  \/ Reset
  \/ \E k \in SettingsKeys : SaveSettings(k)
  \/ Tick

Spec == Init /\ [][Next]_vars

(***************************************************************************)
(* Content wrapping on its own: one parse-mode call whose provider answer  *)
(* is a create object with every content over ContentAlphabet of at most   *)
(* MaxContentLen characters                                                *)
(***************************************************************************)
MaxContentLen == 4

ContentAlphabet == {"a", "b", " ", "\n", "<"}

RECURSIVE StringsUpTo(_)
StringsUpTo(n) ==
  IF n = 0 THEN {""}
  ELSE LET shorter == StringsUpTo(n - 1) IN
       shorter \cup { t \o c : t \in shorter, c \in ContentAlphabet }

Contents == StringsUpTo(MaxContentLen) \ {""}

ContentReply(c) ==
  "{\"type\":\"create\",\"title\":\"Doc\",\"content\":\"" \o jsonEscape(c) \o "\"}"

NextContent ==
  \/ parseIntent("hello there", <<" sk-1 ">>)
  \/ ServerReceive
  \/ \E c \in Contents :
       ProviderRespond(Outcome("http", 200, "", TRUE, <<ContentReply(c)>>))
  \/ ClientReceive

SpecContent == Init /\ [][NextContent]_vars

(***************************************************************************)
(* Properties                                                              *)
(***************************************************************************)
\* parseIntent has resolved or rejected
Returned == pc = "done" /\ caller = "parseIntent"

\* the call to /api/ai failed: no response at all, a non-success status, or
\* a body with an error field
AICallFailed ==
  \/ fetchRejected
  \/ /\ response.status # 0
     /\ \/ ~IsOk(response)
        \/ response.json /\ response.error # <<>> /\ response.error[1] # ""

\* the JSON object the handler extracted from the provider's answer, as
\* [ok, v]; ok is FALSE when there was no answer, no span or no valid JSON
AIObject ==
  IF aiText = <<>> THEN JsonFail
  ELSE LET span == jsonMatch(stripFences(aiText[1])) IN
       IF span = <<>> THEN JsonFail ELSE JSON_parse(span[1])

\* parseIntent returned what the AI path built from a JSON object
AIResult ==
  /\ Returned
  /\ ~fetchRejected /\ response.json /\ IsOk(response) /\ response.error = <<>>
  /\ AIObject.ok

Kinds == {"create", "search", "spaces", "help", "chat", "unknown"}

\* C1: with a key configured, a failed AI call (transport failure, 401 or any
\* other non-success status, error field in the body) makes parseIntent
\* return exactly parseWithRules of the original message.
FallbackIsRuleMatcher ==
  (Returned /\ keyConfigured(aiApiKey) /\ AICallFailed)
    => (~rejected /\ result = <<parseWithRules(message, Dates[dateRead])>>)

FallbackIsRuleMatcherWitness ==
  /\ Returned /\ keyConfigured(aiApiKey)
  /\ response.status = 401
  /\ result # <<>> /\ result[1].type = "create"
  /\ result[1].title = <<"Project Roadmap">>

\* C2: parseIntent never rejects: whatever the key, the message and the
\* outcome of the AI call, it resolves to a ParsedIntent.
NeverRejects ==
  /\ ~rejected
  /\ Returned => (Len(result) = 1 /\ result[1].confidence \in {30, 80, 90, 95})

NeverRejectsWitness ==
  /\ Returned /\ ~rejected /\ Len(result) = 1
  /\ response.status = 200 /\ ~response.json

\* C3: every ParsedIntent parseIntent returns has its kind in Kinds.
KindInDefinedSet == Returned => (Len(result) = 1 /\ result[1].type \in Kinds)

\* a key that is absent, empty or whitespace only
BlankKey(k) == k = <<>> \/ \A i \in 1..Len(k[1]) : Char(k[1], i) \in {" ", "\t", "\n", "\r"}

\* C4: with an absent or blank key parseIntent answers from the Rule Matcher
\* and no request to /api/ai (nor to the provider) is issued in that call.
NoRequestForBlankKey ==
  (caller = "parseIntent" /\ BlankKey(aiApiKey))
    => /\ aiRequests = 0 /\ providerRequests = 0
       /\ pc = "done"
       /\ result = <<parseWithRules(message, Dates[dateRead])>>

NoRequestForBlankKeyWitness ==
  /\ Returned /\ aiApiKey = <<"  ">> /\ aiRequests = 0
  /\ result # <<>> /\ result[1].type = "search"

\* C5: the user's API key is never sent to, nor stored by, the application's
\* own server.
KeyStaysInBrowser ==
  /\ serverSawKey = {}
  /\ userSettings = <<>> \/ userSettings[1] = <<>> \/ userSettings[1] = <<"">>

\* the Rule Matcher produced the result
RuleResult == Returned /\ (~keyConfigured(aiApiKey) \/ AICallFailed)

\* C6: the Rule Matcher's categories are tried in the order help, spaces,
\* create, search and the first one with a matching pattern is the kind: a
\* message matching an earlier and a later category gets the earlier kind.
CategoryPriority ==
  RuleResult =>
    LET n      == trim(message)
        kind   == result[1].type
        help   == AnyMatches(PATTERNS_help, n)
        spaces == AnyMatches(PATTERNS_spaces, n)
        create == AnyMatches(PATTERNS_create, n)
        search == AnyMatches(PATTERNS_search, n)
    IN /\ help => kind = "help"
       /\ (spaces /\ ~help) => kind = "spaces"
       /\ (create /\ ~help /\ ~spaces) => kind = "create"
       /\ (search /\ ~help /\ ~spaces /\ ~create) => kind = "search"
       /\ (~help /\ ~spaces /\ ~create /\ ~search) => kind = "unknown"

CategoryPriorityWitness ==
  /\ RuleResult
  /\ AnyMatches(PATTERNS_spaces, trim(message))
  /\ AnyMatches(PATTERNS_create, trim(message))
  /\ result[1].type = "spaces"

\* C7: a result of kind create never has empty content, also when the AI's
\* JSON object omits `type` and the kind is defaulted to create.
CreateHasContent ==
  (Returned /\ Len(result) = 1 /\ result[1].type = "create")
    => (result[1].content # <<>> /\ result[1].content[1] # "")

\* C8: every create result, from the rules or from the AI, has a title of at
\* least 3 characters after trimming, or a generated fallback title.
CreateTitleWellFormed ==
  (Returned /\ Len(result) = 1 /\ result[1].type = "create")
    => /\ result[1].title # <<>>
       /\ \/ Len(trim(result[1].title[1])) >= 3
          \/ \E k \in 1..Len(Dates) :
               result[1].title[1] \in {ImportedTitle(Dates[k]), "New Page - " \o Dates[k]}

\* the title member of the AI's JSON object is one the claim calls vague
VagueWord(t) ==
  LET lower == toLowerCase(t) IN
  \/ lower \in {"this", "document", "untitled"}
  \/ includes(lower, "for this")
  \/ Len(t) < 3

RECURSIVE dropLineFeeds(_)
dropLineFeeds(s) ==
  IF Len(s) > 0 /\ Char(s, 1) = "\n" THEN dropLineFeeds(Tail(s)) ELSE s

\* the paragraphs of a text: the pieces between runs of two or more line
\* feeds, trimmed, without the empty ones
RECURSIVE Paragraphs(_, _)
Paragraphs(text, cur) ==
  IF Len(text) = 0 THEN (IF trim(cur) = "" THEN <<>> ELSE <<trim(cur)>>)
  ELSE IF OccursAt(text, 1, "\n\n")
  THEN (IF trim(cur) = "" THEN <<>> ELSE <<trim(cur)>>)
         \o Paragraphs(dropLineFeeds(text), "")
  ELSE Paragraphs(Tail(text), cur \o Char(text, 1))

\* the bodies of a sequence of <p>..</p> elements, <<"?">> if html is not one
RECURSIVE ElementBodies(_)
ElementBodies(html) ==
  IF Len(html) = 0 THEN <<>>
  ELSE IF ~OccursAt(html, 1, "<p>") \/ indexOfFrom(html, "</p>", 4) = 0
  THEN <<"?">>
  ELSE LET close == indexOfFrom(html, "</p>", 4)
           body  == SubSeq(html, 4, close - 1)
       IN (IF body = "" THEN <<>> ELSE <<body>>)
            \o ElementBodies(SubSeq(html, close + 4, Len(html)))

\* C10: non-empty AI content without "<" comes back as <p> elements, one
\* per non-empty blank-line-delimited paragraph of the text, in order;
\* content with a "<" comes back unchanged.
ContentWrapped ==
  (AIResult /\ OrElse(Member(AIObject.v, "content"), "") # "")
    => LET c == Member(AIObject.v, "content")[1] IN
       IF \E i \in 1..Len(c) : Char(c, i) = "<"
       THEN result[1].content = <<c>>
       ELSE ElementBodies(result[1].content[1]) = Paragraphs(c, "")

ContentWrappedWitness ==
  /\ AIResult
  /\ Member(AIObject.v, "content") = <<"a\n\nb">>
  /\ result[1].content = <<"<p>a</p><p>b</p>">>

\* the vague references of the Context Builder
VagueWords ==
  {"this", "it", "that", "the file", "the document", "the pdf", "the content"}

\* w occurs in s (any case) at position i as a whole word: the characters
\* around the occurrence are not letters, digits or underscores
WholeWordAt(s, i, w) ==
  /\ OccursAt(toLowerCase(s), i, w)
  /\ Char(s, i - 1) \notin WordChars
  /\ Char(s, i + Len(w)) \notin WordChars

HasVagueReference(s) ==
  \E w \in VagueWords : \E i \in 1..Len(s) : WholeWordAt(s, i, w)

\* s ends with suffix
EndsWith(s, suffix) ==
  Len(suffix) <= Len(s) /\ SubSeq(s, Len(s) - Len(suffix) + 1, Len(s)) = suffix

\* m is the document-processing template for file f
IsDocumentTemplate(m, f) ==
  /\ OccursAt(m, 1, "DOCUMENT PROCESSING REQUEST\n")
  /\ includes(m, "\nFile: " \o f.fileName \o "\n")
  /\ includes(m, "CONTENT START ---\n" \o f.content \o "\n--- FULL DOCUMENT CONTENT END")
  /\ ~includes(m, "User request:")

\* m is the pass-through template for file f with the instruction u verbatim
IsPassThroughTemplate(m, f, u) ==
  /\ OccursAt(m, 1, "[User uploaded file: " \o f.fileName \o "]\n\nFile content:\n" \o f.content)
  /\ EndsWith(m, "User request: " \o u)
  /\ ~includes(m, "DOCUMENT PROCESSING REQUEST")

\* C11: the message handleSend hands to parseIntent is the user message
\* itself when no file is attached; with a file attached it is the
\* document-processing template when the user message is empty or holds a
\* whole-word vague reference (any case), and otherwise the pass-through
\* template ending in the user's instruction verbatim.
ContextBuilderChoice ==
  (userMessage # <<>>) =>
    LET u == userMessage[1] IN
    IF currentFile = <<>> THEN message = u
    ELSE IF u = "" \/ HasVagueReference(u)
    THEN IsDocumentTemplate(message, currentFile[1])
    ELSE IsPassThroughTemplate(message, currentFile[1], u)

ContextBuilderChoiceWitness ==
  /\ pc = "proxy" /\ userMessage = <<"edit the page">> /\ currentFile # <<>>
  /\ EndsWith(request.message, "---\nUser request: edit the page")

\* the Rule Matcher produced the result of a call without a usable key
NoKeyResult == Returned /\ ~keyConfigured(aiApiKey)

\* the number of characters a leading article (a, an, the; any case) and the
\* whitespace after it take up at the start of t, 0 when there is none
LeadingArticleLen(t) ==
  LET arts == {w \in {"a", "an", "the"} :
                 /\ OccursAt(toLowerCase(t), 1, w)
                 /\ IsWhitespace(Char(t, Len(w) + 1))}
  IN IF arts = {} THEN 0
     ELSE LET w == CHOOSE w \in arts : TRUE IN Len(w) + WsRun(t, Len(w) + 1)

\* t with the first letter of every space-separated word in upper case
RECURSIVE WordsCapitalized(_, _)
WordsCapitalized(t, i) ==
  IF i > Len(t) THEN ""
  ELSE (IF i = 1 \/ Char(t, i - 1) = " " THEN UpperChar(Char(t, i)) ELSE Char(t, i))
         \o WordsCapitalized(t, i + 1)

\* captured title text: trimmed, one leading article removed, words capitalized
NormalizedTitle(captured) ==
  LET t == trim(captured) IN
  WordsCapitalized(SubSeq(t, LeadingArticleLen(t) + 1, Len(t)), 1)

\* the text the first matching create pattern captures from the message
CapturedTitle == FirstMatch(PATTERNS_create, trim(message)).cap

\* C12 as stated: with no AI key, every message that a create pattern
\* matches comes back as kind create whose title is the captured text
\* trimmed, without one leading article, each word capitalized.
CreateTitleIsNormalizedCapture ==
  (NoKeyResult /\ AnyMatches(PATTERNS_create, trim(message)))
    => /\ result[1].type = "create"
       /\ result[1].title = <<NormalizedTitle(CapturedTitle)>>

\* C12 amended: with no AI key, every message classified as create has as
\* title the captured text trimmed, without one leading article, each word
\* capitalized, unless that text is empty: then the title is "New Page - "
\* and the date; "create a page called project roadmap" gives
\* "Project Roadmap".
CreateTitleNormalized ==
  /\ (NoKeyResult /\ result[1].type = "create")
       => /\ AnyMatches(PATTERNS_create, trim(message))
          /\ result[1].title =
               <<(IF NormalizedTitle(CapturedTitle) # ""
                  THEN NormalizedTitle(CapturedTitle)
                  ELSE "New Page - " \o Dates[dateRead])>>
  /\ (NoKeyResult /\ message = "create a page called project roadmap")
       => (result[1].type = "create" /\ result[1].title = <<"Project Roadmap">>)

CreateTitleNormalizedWitness ==
  /\ NoKeyResult /\ message = "create the sprint retro"
  /\ result[1].type = "create" /\ result[1].title = <<"Sprint Retro">>

\* an optional string field is present and not empty
Populated(x) == x # <<>> /\ x[1] # ""

\* C13: in every ParsedIntent parseIntent returns the payload matches the
\* kind: title and content are populated for create and only for create,
\* query for search and only for search, an answer is populated for chat,
\* help and unknown, and no intent carries more than one of the three
\* payloads.
PayloadMatchesKind ==
  Returned =>
    LET r       == result[1]
        page    == Populated(r.title) \/ Populated(r.content)
        query   == Populated(r.query)
        answer  == Populated(r.answer)
    IN /\ r.type = "create" => (Populated(r.title) /\ Populated(r.content))
       /\ r.type = "search" => query
       /\ r.type \in {"chat", "help", "unknown"} => answer
       /\ page => r.type = "create"
       /\ query => r.type = "search"
       /\ ~(page /\ query) /\ ~(page /\ answer) /\ ~(query /\ answer)

\* the title generateContent is called with for the message in hand
GeneratorTitle ==
  LET orNewPage(t) == IF t # "" THEN t ELSE "New Page"
  IN orNewPage(NormalizedTitle(CapturedTitle))

\* t contains w, whatever the case of t
ContainsAnyCase(t, w) == includes(toLowerCase(t), w)

\* content is the attendees / agenda / notes / action items template
IsMeetingContent(c) ==
  /\ includes(c, "Attendees</h2>") /\ includes(c, "Agenda</h2>")
  /\ includes(c, "Notes</h2>") /\ includes(c, "Action Items</h2>")

\* content is the what went well / what could improve template
IsRetroContent(c) ==
  /\ includes(c, "What Went Well</h2>") /\ includes(c, "What Could Improve</h2>")
  /\ ~includes(c, "Attendees")

\* content is the highlights / in progress / blockers template
IsStatusContent(c) ==
  /\ includes(c, "Highlights</h2>") /\ includes(c, "In Progress</h2>")
  /\ includes(c, "Blockers</h2>")

\* content is the generic template: the title as heading and one paragraph
IsGenericContent(c, t) == c = "<h2>" \o t \o "</h2><p>Content goes here...</p>"

\* a create intent built by the Rule Matcher
RuleCreate == RuleResult /\ result[1].type = "create"

\* C14 as stated: the content of a rule-based create is the meeting
\* template for every title containing "meeting" (any case), the retro
\* template for every title containing "retro", and the generic template
\* for every title with neither keyword.
ContentKeyedByMeetingRetro ==
  RuleCreate =>
    LET c == result[1].content[1] IN
    /\ ContainsAnyCase(GeneratorTitle, "meeting") => IsMeetingContent(c)
    /\ ContainsAnyCase(GeneratorTitle, "retro") => IsRetroContent(c)
    /\ (~ContainsAnyCase(GeneratorTitle, "meeting")
          /\ ~ContainsAnyCase(GeneratorTitle, "retro"))
         => IsGenericContent(c, GeneratorTitle)

\* C14 amended: the keywords are tried in the order meeting, retro,
\* status/weekly (any case) and the first one the title contains selects
\* the template; a title with none of the four words gets the generic
\* template.
ContentKeyedInOrder ==
  RuleCreate =>
    LET keyed(c, t, meeting, retro, status) ==
          /\ meeting => IsMeetingContent(c)
          /\ (retro /\ ~meeting) => IsRetroContent(c)
          /\ (status /\ ~meeting /\ ~retro) => IsStatusContent(c)
          /\ (~meeting /\ ~retro /\ ~status) => IsGenericContent(c, t)
        lowered(t, l) ==
          keyed(result[1].content[1], t,
                includes(l, "meeting"), includes(l, "retro"),
                includes(l, "status") \/ includes(l, "weekly"))
        forTitle(t) == lowered(t, toLowerCase(t))
    IN forTitle(GeneratorTitle)

ContentKeyedInOrderWitness ==
  /\ RuleCreate /\ message = "create retro meeting"
  /\ result[1].title = <<"Retro Meeting">>
  /\ IsMeetingContent(result[1].content[1])

\* C15: with no API key the returned ParsedIntent is a function of the
\* message alone: classifying the same message on any other day the clock
\* can show gives the identical intent.
RuleResultIsTimeless ==
  NoKeyResult =>
    \A d \in 1..Len(Dates) : result[1] = parseWithRules(message, Dates[d])

\* the latest provider attempt of this call failed
LastAttemptFailed ==
  /\ lastAttempt # <<>>
  /\ \/ lastAttempt[1].kind = "network"
     \/ lastAttempt[1].status < 200 \/ lastAttempt[1].status > 299

DocumentMarkers ==
  { "DOCUMENT PROCESSING REQUEST", "[User uploaded", "Document content:",
    "File content:" }

\* the system prompt the claim assigns to a request
PromptByModeFirst(msg, mode) ==
  IF mode = "chat" THEN "chatPrompt"
  ELSE IF \E marker \in DocumentMarkers : includes(msg, marker)
  THEN "documentProcessingPrompt"
  ELSE "commandParsingPrompt"

\* C17: the system prompt of every request the handler sends to the
\* provider is the conversational prompt in mode chat, otherwise the
\* document-conversion prompt when the message holds a document-request
\* marker, otherwise the command-parsing prompt.
PromptSelectedByModeFirst ==
  pc = "provider" =>
    systemPrompt(request.message, request.mode)
      = PromptByModeFirst(request.message, request.mode)

\* the handler's response is the authentication error
IsAuthError(r) ==
  /\ r.status = 401
  /\ r.error # <<>> /\ OccursAt(r.error[1], 1, "Invalid DeepSeek API key")

\* C18: when every provider attempt failed the handler's error is of
\* exactly one class: the authentication error exactly when the provider
\* answered with an authentication status (401 or 403), an error with the
\* provider's status for any other non-success status, and a plain 500
\* error when no attempt got a response at all.
FailureClassified ==
  (pc = "responded" /\ LastAttemptFailed) =>
    LET a == lastAttempt[1] IN
    /\ IsAuthError(response) <=> (a.kind = "http" /\ a.status \in {401, 403})
    /\ (a.kind = "http" /\ a.status \notin {401, 403})
         => response.status = a.status
    /\ ~a.answered => (response.status = 500 /\ ~IsAuthError(response))

\* C19: in parse mode a successful provider reply with non-empty text in
\* which no JSON object is found, or whose {...} span does not parse, is
\* answered by the handler with kind chat, the whole raw text as answer and
\* confidence 0.9, and parseIntent returns exactly that chat intent, not
\* the Rule Matcher's.
NoJsonReplyIsChat ==
  (Returned /\ ~fetchRejected /\ request.mode = "parse"
     /\ aiText # <<>> /\ aiText[1] # "" /\ ~AIObject.ok)
    => /\ response = Resp(200, <<>>, <<"chat">>, <<>>, <<>>, <<>>, <<>>, aiText, <<90>>)
       /\ result = <<Intent("chat", <<>>, <<>>, <<>>, <<>>, aiText, 90)>>

NoJsonReplyIsChatWitness ==
  /\ Returned /\ message = "find pages about budget"
  /\ aiText = <<"Here you go: {\"type\":\"create\" oops}">>
  /\ result[1].type = "chat" /\ result[1].answer = aiText
  /\ result[1].confidence = 90

\* the key with surrounding whitespace and zero-width characters removed
RECURSIVE CleanedKey(_)
CleanedKey(k) ==
  LET strip(t) ==
        IF t = "" THEN ""
        ELSE IF SubSeq(t, 1, 1) = ZWSP THEN CleanedKey(SubSeq(t, 2, Len(t)))
        ELSE IF SubSeq(t, Len(t), Len(t)) = ZWSP
             THEN CleanedKey(SubSeq(t, 1, Len(t) - 1))
        ELSE t
  IN strip(trim(k))

\* C20: whenever the API key of a request is empty after removing
\* surrounding whitespace and zero-width characters, the handler stops at
\* its key check: it never has a provider fetch in flight, and the
\* response it produces is the missing-credential error (400, "No API key
\* provided").
MissingCredentialAfterCleaning ==
  (request.mode # "none" /\ CleanedKey(OrElse(request.apiKey, "")) = "")
    => /\ pc # "provider"
       /\ (pc = "responded" /\ response.json)
            => response = ErrorResp(400, "No API key provided")

\* the request the Context Builder resolves for the user message u
ResolvedRequest(u) ==
  IF u # "" THEN u ELSE "Create a Confluence page from this document"

\* handleSend built the document-processing template for the message in hand
EmittedDocumentTemplate ==
  /\ userMessage # <<>> /\ currentFile # <<>>
  /\ OccursAt(message, 1, "DOCUMENT PROCESSING REQUEST")

\* C21: every document-processing template the Context Builder emits
\* embeds the file name, the default title (the file name without its
\* extension), the full document text between the two delimiter lines, and
\* the resolved user request (the user's message, or the fixed default
\* request when the message is empty).
DocumentTemplateEmbedsRequest ==
  EmittedDocumentTemplate =>
    LET embeds(f, base) ==
          /\ includes(message, "File: " \o f.fileName \o "\n")
          /\ includes(message, "Default title if none found: " \o base \o "\n")
          /\ includes(message, "--- FULL DOCUMENT CONTENT START ---\n"
                                 \o f.content
                                 \o "\n--- FULL DOCUMENT CONTENT END ---")
          /\ includes(message, ResolvedRequest(userMessage[1]))
    IN embeds(currentFile[1], fileBaseName(currentFile[1].fileName))

\* the handler answered a chat-mode request after a successful provider
\* reply with non-empty text
ChatModeSuccess ==
  /\ pc = "responded" /\ request.mode = "chat"
  /\ aiText # <<>> /\ aiText[1] # ""

\* C22: on a successful provider reply in chat mode the handler returns a
\* result of kind chat whose answer is the raw reply text; nothing is
\* extracted from the text, so the result has no title, content or query.
ChatModeReturnsChatKind ==
  ChatModeSuccess =>
    /\ response.status = 200
    /\ response.type = <<"chat">>
    /\ response.answer = aiText
    /\ response.title = <<>> /\ response.content = <<>> /\ response.query = <<>>

\* C29: every message the Context Builder produces for an attachment holds
\* at least one of the handler's document-request markers, and every
\* provider request the handler sends for such a message carries the
\* document-conversion prompt with temperature 0.05 and 16000 tokens, never
\* the command-parsing prompt.
AttachmentUsesDocumentPrompt ==
  (userMessage # <<>> /\ currentFile # <<>>) =>
    /\ \E marker \in DocumentMarkers : includes(message, marker)
    /\ pc = "provider" =>
         providerRequestBody(request.message, request.mode)
           = [system      |-> "documentProcessingPrompt",
              user        |-> message,
              temperature |-> 5,
              max_tokens  |-> 16000]

AttachmentUsesDocumentPromptWitness ==
  /\ pc = "provider" /\ currentFile # <<>>
  /\ userMessage = <<"edit the page">>
  /\ OccursAt(request.message, 1, "[User uploaded file: q3.report.pdf]")
  /\ systemPrompt(request.message, request.mode) = "documentProcessingPrompt"

(***************************************************************************)
(* Chat history routes                                                     *)
(***************************************************************************)
MaxConversations == 2
MaxMessages == 2

\* ids of the registered users; caller 0 stands for a request for which
\* getCurrentUser() returned null
Users == {1, 2}
Callers == {0} \cup Users

ConversationTitles == {"", "Plans"}
MessageContents == {"", "hi"}
ActionStatuses == {"", "done"}

\* conversationOps.findById: the rows with that id (none or one)
findById(id) == {c \in conversations : c.id = id}

\* the rows of messagesTable, as a set
MessageRows == {messagesTable[i] : i \in 1..Len(messagesTable)}

\* messageOps.findByConversationId, as a set of rows
findByConversationId(id) == {m \in MessageRows : m.conversation_id = id}

RECURSIVE withoutConversation(_, _)
\* the rows of table t that do not belong to conversation id
withoutConversation(t, id) ==
  IF t = <<>> THEN <<>>
  ELSE IF Head(t).conversation_id = id THEN withoutConversation(Tail(t), id)
  ELSE <<Head(t)>> \o withoutConversation(Tail(t), id)

HistoryResponse(u, status, rows) == [user |-> u, status |-> status, rows |-> rows]

\* POST /api/chat/conversations
conversationsPost(u, title) ==
  IF u = 0
  THEN /\ historyResponse' = HistoryResponse(u, 401, {})
       /\ UNCHANGED <<conversations, messagesTable, rowIds>>
  ELSE LET row == [id      |-> rowIds.conversations + 1,
                   user_id |-> u,
                   title   |-> IF title # "" THEN title ELSE "Chat"]
       IN /\ rowIds.conversations < MaxConversations
          /\ conversations' = conversations \cup {row}
          /\ rowIds' = [rowIds EXCEPT !.conversations = @ + 1]
          /\ historyResponse' = HistoryResponse(u, 200, {row})
          /\ UNCHANGED messagesTable

\* the checks GET, PATCH and DELETE of /api/chat/conversations/[id] share:
\* 0 when they pass, else the status of the error response
conversationGuard(u, id) ==
  IF u = 0 THEN 401
  ELSE IF findById(id) = {} THEN 404
  ELSE IF \E c \in findById(id) : c.user_id # u THEN 403
  ELSE 0

\* GET /api/chat/conversations/[id]
conversationGet(u, id) ==
  /\ historyResponse' =
       IF conversationGuard(u, id) # 0
       THEN HistoryResponse(u, conversationGuard(u, id), {})
       ELSE HistoryResponse(u, 200, findById(id) \cup findByConversationId(id))
  /\ UNCHANGED <<conversations, messagesTable, rowIds>>

\* PATCH /api/chat/conversations/[id] with body { title }
conversationPatch(u, id, title) ==
  IF conversationGuard(u, id) # 0
  THEN /\ historyResponse' = HistoryResponse(u, conversationGuard(u, id), {})
       /\ UNCHANGED <<conversations, messagesTable, rowIds>>
  ELSE LET updated == {IF c.id = id /\ title # ""
                       THEN [c EXCEPT !.title = title] ELSE c
                         : c \in conversations}
       IN /\ conversations' = updated
          /\ historyResponse' =
               HistoryResponse(u, 200, {c \in updated : c.id = id})
          /\ UNCHANGED <<messagesTable, rowIds>>

\* DELETE /api/chat/conversations/[id]; the messages go with the
\* conversation (ON DELETE CASCADE)
conversationDelete(u, id) ==
  IF conversationGuard(u, id) # 0
  THEN /\ historyResponse' = HistoryResponse(u, conversationGuard(u, id), {})
       /\ UNCHANGED <<conversations, messagesTable, rowIds>>
  ELSE /\ conversations' = conversations \ findById(id)
       /\ messagesTable' = withoutConversation(messagesTable, id)
       /\ historyResponse' = HistoryResponse(u, 200, {})
       /\ UNCHANGED rowIds

\* POST /api/chat/messages with body { conversationId, role, content,
\* action: { status } }
messagesPost(u, conversationId, role, content, status) ==
  LET refuse(code) ==
        /\ historyResponse' = HistoryResponse(u, code, {})
        /\ UNCHANGED <<conversations, messagesTable, rowIds>>
      row == [id              |-> rowIds.messages + 1,
              conversation_id |-> conversationId,
              role            |-> role,
              content         |-> content,
              action_status   |-> status]
      firstOfUser ==
        role = "user"
          /\ ~\E m \in findByConversationId(conversationId) : m.role = "user"
  IN IF u = 0 THEN refuse(401)
     ELSE IF conversationId = 0 \/ content = "" THEN refuse(400)
     ELSE IF conversationGuard(u, conversationId) # 0
     THEN refuse(conversationGuard(u, conversationId))
     ELSE /\ rowIds.messages < MaxMessages
          /\ messagesTable' = Append(messagesTable, row)
          /\ rowIds' = [rowIds EXCEPT !.messages = @ + 1]
          /\ conversations' =
               {IF c.id = conversationId /\ firstOfUser
                THEN [c EXCEPT !.title = content] ELSE c : c \in conversations}
          /\ historyResponse' = HistoryResponse(u, 200, {row})

\* PATCH /api/chat/messages with body { messageId, actionStatus }
messagesPatch(u, messageId, actionStatus) ==
  IF u = 0 \/ messageId = 0
  THEN /\ historyResponse' = HistoryResponse(u, IF u = 0 THEN 401 ELSE 400, {})
       /\ UNCHANGED <<conversations, messagesTable, rowIds>>
  ELSE /\ messagesTable' =
            [i \in 1..Len(messagesTable) |->
               IF messagesTable[i].id = messageId /\ actionStatus # ""
               THEN [messagesTable[i] EXCEPT !.action_status = actionStatus]
               ELSE messagesTable[i]]
       /\ historyResponse' = HistoryResponse(u, 200, {})
       /\ UNCHANGED <<conversations, rowIds>>

NextHistory ==
  \/ \E u \in Callers, title \in ConversationTitles :
       conversationsPost(u, title) /\ UNCHANGED <<callVars, sessionVars, chatVars>>
  \/ \E u \in Callers, id \in 1..MaxConversations :
       conversationGet(u, id)
         /\ UNCHANGED <<callVars, sessionVars, chatVars>>
  \/ \E u \in Callers, id \in 1..MaxConversations, title \in ConversationTitles :
       conversationPatch(u, id, title)
         /\ UNCHANGED <<callVars, sessionVars, chatVars>>
  \/ \E u \in Callers, id \in 1..MaxConversations :
       conversationDelete(u, id)
         /\ UNCHANGED <<callVars, sessionVars, chatVars>>
  \/ \E u \in Callers, id \in 0..MaxConversations, role \in {"user", "assistant"},
        content \in MessageContents, status \in ActionStatuses :
       messagesPost(u, id, role, content, status)
         /\ UNCHANGED <<callVars, sessionVars, chatVars>>
  \/ \E u \in Callers, id \in 0..MaxMessages, status \in ActionStatuses :
       messagesPatch(u, id, status)
         /\ UNCHANGED <<callVars, sessionVars, chatVars>>

SpecHistory == Init /\ [][NextHistory]_vars

\* the user a row belongs to: user_id of a conversation row; for a message
\* row, the owner of its conversation (0 when the conversation is gone)
RowOwner(row) ==
  LET of(owners) == IF owners = {} THEN 0 ELSE CHOOSE o \in owners : TRUE
  IN IF "user_id" \in DOMAIN row THEN row.user_id
     ELSE of({c.user_id : c \in findById(row.conversation_id)})

\* C23: a chat-history request neither changes nor reveals a conversation
\* or message of a user other than its caller: every row owned by someone
\* else is the same after the request, and every row in the response is
\* the caller's.
OnlyOwnHistoryTouched ==
  [][ LET u == historyResponse'.user IN
      /\ \A c \in conversations : c.user_id # u => c \in conversations'
      /\ \A i \in 1..Len(messagesTable) :
           RowOwner(messagesTable[i]) # u =>
             \E j \in 1..Len(messagesTable') :
               messagesTable'[j] = messagesTable[i]
      /\ \A row \in historyResponse'.rows : RowOwner(row) = u
    ]_historyVars

(***************************************************************************)
(* Sessions: login, logout, getCurrentUser                                 *)
(***************************************************************************)
MaxNow == 4
MaxSessions == 2

\* SESSION_DURATION and the JWT's expiresIn, in seconds
SessionDuration == 2

\* seconds in a day
DayLength == 2

ServerSecret == "JWT_SECRET"

\* jwt.sign({ userId }, JWT_SECRET, { expiresIn: "7d" }) at second iat: the
\* token is a function of the payload { userId, iat, exp } and the secret
generateSessionToken(userId, iat) ==
  [userId |-> userId, iat |-> iat, exp |-> iat + SessionDuration,
   secret |-> ServerSecret]

\* what a session cookie can hold: tokens the server signed, and tokens
\* signed with another secret
CookieTokens ==
  {[generateSessionToken(u, i) EXCEPT !.secret = k] :
     u \in Users, i \in 0..MaxNow, k \in {ServerSecret, "guess"}}

\* verifySessionToken: the signature is the server's and exp is not reached
verifySessionToken(token, t) == token.secret = ServerSecret /\ t < token.exp

\* s.expires_at > datetime('now'): expires_at holds Date.toISOString()
\* ("2026-11-10T08:00:00.000Z"), datetime('now') gives "2026-11-10 09:00:00",
\* and the two are compared as text: a later date wins, and on the same
\* date "T" is greater than " "
expiresAfterNow(expires_at, t) == expires_at \div DayLength >= t \div DayLength

\* sessionOps.findByToken at time t
findByToken(token, t) ==
  {row \in sessions : row.token = token /\ expiresAfterNow(row.expires_at, t)}

\* variant: the JWT alone decides, the sessions table is not consulted
currentUser_jwtOnly(token) ==
  IF ~verifySessionToken(token, now) THEN 0 ELSE token.userId

\* getCurrentUser() for a request whose session cookie holds token: the
\* user's id, 0 for null
currentUser(token) ==
  LET userOf(rows) ==
        IF rows = {} THEN 0 ELSE (CHOOSE row \in rows : TRUE).user_id
  IN IF ~verifySessionToken(token, now) THEN 0
     ELSE userOf(findByToken(token, now))

\* loginUser with the right password; sessionOps.create throws on a token
\* that is already stored (token TEXT UNIQUE) and the login fails
loginUser(u) ==
  LET store(token) ==
        IF \E row \in sessions : row.token = token
        THEN UNCHANGED <<sessions, sessionSeq>>
        ELSE /\ sessions' = sessions \cup
                  {[id |-> sessionSeq + 1, user_id |-> u, token |-> token,
                    expires_at |-> now + SessionDuration]}
             /\ sessionSeq' = sessionSeq + 1
  IN /\ sessionSeq < MaxSessions
     /\ store(generateSessionToken(u, now))
     /\ authResult' = NoAuthResult
     /\ UNCHANGED <<now, revoked>>

\* POST /api/auth/logout with the session cookie holding token
logoutUser(token) ==
  /\ sessions' = {row \in sessions : row.token # token}
  /\ revoked' = revoked \cup
       {<<row.token, row.id>> : row \in {r \in sessions : r.token = token}}
  /\ authResult' = NoAuthResult
  /\ UNCHANGED <<now, sessionSeq>>

\* a request with the session cookie holding token reaches getCurrentUser()
getCurrentUser(token) ==
  /\ authResult' = [token |-> <<token>>, user |-> currentUser(token)]
  /\ UNCHANGED <<sessions, sessionSeq, now, revoked>>

\* sessionOps.deleteExpired(), run when the module is loaded
deleteExpired ==
  /\ sessions' = {row \in sessions : expiresAfterNow(row.expires_at, now)}
  /\ authResult' = NoAuthResult
  /\ UNCHANGED <<sessionSeq, now, revoked>>

\* a second passes
TickNow ==
  /\ now < MaxNow
  /\ now' = now + 1
  /\ authResult' = NoAuthResult
  /\ UNCHANGED <<sessions, sessionSeq, revoked>>

NextSessions ==
  \/ \E u \in Users : loginUser(u) /\ UNCHANGED <<callVars, historyVars, chatVars>>
  \/ \E token \in CookieTokens :
       logoutUser(token) /\ UNCHANGED <<callVars, historyVars, chatVars>>
  \/ \E token \in CookieTokens :
       getCurrentUser(token) /\ UNCHANGED <<callVars, historyVars, chatVars>>
  \/ deleteExpired /\ UNCHANGED <<callVars, historyVars, chatVars>>
  \/ TickNow /\ UNCHANGED <<callVars, historyVars, chatVars>>

SpecSessions == Init /\ [][NextSessions]_vars

\* the getCurrentUser() call just made authenticated its request
Authenticated == authResult.token # <<>> /\ authResult.user # 0

\* rows stored for the token of the call just made that have not expired
LiveRows ==
  {row \in sessions : <<row.token>> = authResult.token /\ row.expires_at > now}

\* C28 as stated: a token authenticates only if its JWT verifies and a
\* stored, non-expired session row for it exists, and a token whose session
\* row a logout has deleted never authenticates again.
RevokedNeverAuthenticates ==
  Authenticated =>
    /\ verifySessionToken(authResult.token[1], now)
    /\ LiveRows # {}
    /\ ~\E r \in revoked : r[1] = authResult.token[1]

\* C28 amended: a token authenticates only if its JWT verifies and a
\* stored, non-expired session row for it exists; after a logout has
\* deleted its row the token authenticates only through a row that a later
\* login stored for the same token (the same user logging in again within
\* the second in which the token was signed).
AuthenticatesOnlyThroughStoredRow ==
  Authenticated =>
    /\ verifySessionToken(authResult.token[1], now)
    /\ \E row \in LiveRows :
         /\ row.user_id = authResult.user
         /\ \A r \in revoked : r[1] = row.token => r[2] < row.id

AuthenticatesOnlyThroughStoredRowWitness ==
  /\ authResult = [token |-> <<generateSessionToken(1, 0)>>, user |-> 0]
  /\ <<generateSessionToken(1, 0), 1>> \in revoked
  /\ now = 0 /\ sessions = {}

(***************************************************************************)
(* Chat page                                                               *)
(***************************************************************************)
MaxSends == 2
MaxPageMessages == 3

ChatTexts == {"", "hi"}

PageFiles == {[fileName |-> "q3.report.pdf", content |-> "Budget: 10"],
              [fileName |-> ".md", content |-> "# Notes"]}

\* what apiClient.getSpaces() can resolve to: the keys of the spaces
SpaceLists == {<<>>, <<"DEV">>}

\* what parseIntent can resolve to
PageIntents ==
  { Intent("create", <<"Roadmap">>, <<"<h2>Plan</h2>">>, <<>>, <<>>, <<>>, 80),
    Intent("create", <<"">>, <<"">>, <<>>, <<"OPS">>, <<>>, 95),
    Intent("search", <<>>, <<>>, <<"budget">>, <<>>, <<>>, 85),
    Intent("spaces", <<>>, <<>>, <<>>, <<>>, <<>>, 95),
    Intent("help", <<>>, <<>>, <<>>, <<>>, <<>>, 90),
    Intent("chat", <<>>, <<>>, <<>>, <<>>, <<"Hi">>, 90) }

\* a || b for an optional string a
orDefault(a, b) == IF a = <<>> \/ a[1] = "" THEN b ELSE a[1]

\* action: { type, status }
ActionOf(type, status) == <<[type |-> type, status |-> status]>>

\* addMessage(role, content, extra) applied to the list
addMessage(list, role, content, action) ==
  Append(list, [id |-> Len(list) + 1, role |-> role, content |-> content,
                action |-> action])

\* updateLastMessage({ content, action }) applied to the list
updateLastMessage(list, content, action) ==
  IF list = <<>> THEN list
  ELSE [list EXCEPT ![Len(list)] = [@ EXCEPT !.content = content,
                                             !.action = action]]

\* saveMessage(convId, message) of invocation i: the request it sends, none
\* when there is no conversation
saveMessage(i, convId, role, content, action) ==
  IF convId = 0 THEN {}
  ELSE {[send |-> i, conversationId |-> convId, role |-> role,
         content |-> content,
         status |-> IF action = <<>> THEN "" ELSE action[1].status]}

\* handleSend from "Show user message" to the await of parseIntent, for
\* invocation record rec with conversation id convId
sendUserMessage(i, rec, convId, list) ==
  LET shown == IF rec.userMessage # "" THEN rec.userMessage
               ELSE "Process this document"
  IN /\ Len(messages) < MaxPageMessages
     /\ messages' = addMessage(messages, "user", shown, <<>>)
     /\ inflight' = inflight \cup saveMessage(i, convId, "user", shown, <<>>)
     /\ isLoading' = TRUE
     /\ sends' = [list EXCEPT ![i] = [rec EXCEPT !.pc = "parseIntent",
                                                 !.convId = convId,
                                                 !.userMessage = ""]]

\* the user clicks Send or presses Enter: handleSend up to its first await
handleSendClick ==
  /\ ~((trim(input) = "" /\ uploadedFile = <<>>) \/ isLoading)
  /\ Len(messages) + 2 <= MaxPageMessages
  /\ input' = ""
  /\ IF ~isConfigured
     THEN /\ messages' =
               addMessage(addMessage(messages, "user", trim(input), <<>>),
                          "assistant", "Please configure your Confluence settings first.", <<>>)
          /\ UNCHANGED <<uploadedFile, isLoading, currentConversationId,
                         sends, inflight>>
     ELSE LET rec == [pc |-> "createConversation", convId |-> 0,
                      userMessage |-> trim(input), currentFile |-> uploadedFile,
                      title |-> "", content |-> "", space |-> <<>>,
                      assistantMsg |-> 0]
          IN /\ Len(sends) < MaxSends
             /\ uploadedFile' = <<>>
             /\ UNCHANGED currentConversationId
             /\ IF currentConversationId = 0
                THEN /\ sends' = Append(sends, rec)
                     /\ UNCHANGED <<messages, isLoading, inflight>>
                ELSE sendUserMessage(Len(sends) + 1, rec, currentConversationId,
                                     Append(sends, rec))
  /\ UNCHANGED <<isConfigured, createPageCalls, historyVars>>

\* createConversation resolves for invocation i: with the id of the row
\* POST /api/chat/conversations stored, or with null when the request failed
createConversationReturns(i, failed) ==
  /\ i \in 1..Len(sends) /\ sends[i].pc = "createConversation"
  /\ IF failed
     THEN /\ UNCHANGED <<historyVars, currentConversationId>>
          /\ sendUserMessage(i, sends[i], 0, sends)
     ELSE /\ conversationsPost(1, IF sends[i].userMessage # ""
                                  THEN sends[i].userMessage ELSE "New Chat")
          /\ currentConversationId' = rowIds.conversations + 1
          /\ sendUserMessage(i, sends[i], rowIds.conversations + 1, sends)
  /\ UNCHANGED <<input, uploadedFile, isConfigured, createPageCalls>>

\* the end of handleSend: the message list, the save request and
\* setIsLoading(false); the locals of the invocation go out of scope
finishSend(i, list, save) ==
  /\ messages' = list
  /\ inflight' = inflight \cup save
  /\ isLoading' = FALSE
  /\ sends' = [sends EXCEPT ![i].pc = "done", ![i].currentFile = <<>>,
                            ![i].title = "", ![i].content = "",
                            ![i].space = <<>>]

\* catch (error): the error message is added and saved
catchError(i) ==
  finishSend(i, addMessage(messages, "assistant", "Error: Request failed", <<>>),
             saveMessage(i, sends[i].convId, "assistant", "Error: Request failed", <<>>))

\* updateLastMessage with the final content and action, and the save of
\* { ...assistantMsg, content, action }
finishAction(i, content, action) ==
  finishSend(i, updateLastMessage(messages, content, action),
             saveMessage(i, sends[i].convId, "assistant", content, action))

\* the title of the page to create
pageTitle(intent, attached, date) ==
  orDefault(intent.title,
            IF attached # <<>> THEN fileBaseName(attached[1].fileName)
            ELSE "New Page - " \o date)

\* parseIntent resolves for invocation i: the switch up to its first await
\* or, for help, chat and default, to the end of handleSend
parseIntentReturns(i, intent) ==
  /\ i \in 1..Len(sends) /\ sends[i].pc = "parseIntent"
  /\ Len(messages) < MaxPageMessages
  /\ LET executing(text, next) ==
           /\ messages' = addMessage(messages, "assistant", text,
                                     ActionOf(intent.type, "executing"))
           /\ sends' = [sends EXCEPT
                ![i].pc = next,
                ![i].assistantMsg = Len(messages) + 1,
                ![i].currentFile = <<>>,
                ![i].title = IF intent.type # "create" THEN ""
                             ELSE pageTitle(intent, sends[i].currentFile,
                                            Dates[clock]),
                ![i].content = IF intent.type # "create" THEN ""
                               ELSE orDefault(intent.content,
                                      "<p>Page created via Confluence GPT.</p>"),
                ![i].space = intent.space]
           /\ UNCHANGED <<inflight, isLoading>>
         answer(text) ==
           finishSend(i, addMessage(messages, "assistant", text, <<>>),
                      saveMessage(i, sends[i].convId, "assistant", text, <<>>))
     IN CASE intent.type = "create" -> executing("Creating page", "getSpaces")
          [] intent.type = "search" -> executing("Searching", "searchPages")
          [] intent.type = "spaces" -> executing("Fetching spaces", "listSpaces")
          [] intent.type = "help"   -> answer("What I can do")
          [] OTHER -> answer(orDefault(intent.answer, "I'm not sure how to help with that."))
  /\ UNCHANGED <<input, uploadedFile, currentConversationId, isConfigured,
                 createPageCalls, historyVars>>

\* create: apiClient.getSpaces() resolves with spaces, or throws
getSpacesReturns(i, threw, spaces) ==
  /\ i \in 1..Len(sends) /\ sends[i].pc = "getSpaces"
  /\ LET spaceKey == orDefault(sends[i].space,
                               IF spaces = <<>> THEN "" ELSE spaces[1])
     IN IF threw
        THEN /\ Len(messages) < MaxPageMessages
             /\ catchError(i)
             /\ UNCHANGED createPageCalls
        ELSE IF spaceKey = ""
        THEN /\ finishAction(i, "No spaces found.", ActionOf("create", "error"))
             /\ UNCHANGED createPageCalls
        ELSE /\ createPageCalls' = createPageCalls \cup
                  {[title |-> sends[i].title, spaceKey |-> spaceKey,
                    content |-> sends[i].content]}
             /\ sends' = [sends EXCEPT ![i].pc = "createPage",
                                       ![i].title = "", ![i].content = "",
                                       ![i].space = <<>>]
             /\ UNCHANGED <<messages, inflight, isLoading>>
  /\ UNCHANGED <<input, uploadedFile, currentConversationId, isConfigured,
                 historyVars>>

\* an awaited Confluence call of invocation i (createPage, searchPages, or
\* getSpaces of the spaces branch) resolves, or throws
confluenceReturns(i, threw) ==
  /\ i \in 1..Len(sends)
  /\ sends[i].pc \in {"createPage", "searchPages", "listSpaces"}
  /\ IF threw
     THEN Len(messages) < MaxPageMessages /\ catchError(i)
     ELSE CASE sends[i].pc = "createPage" ->
                 finishAction(i, "Created", ActionOf("create", "done"))
            [] sends[i].pc = "searchPages" ->
                 finishAction(i, "Found pages", ActionOf("search", "done"))
            [] OTHER ->
                 finishAction(i, "Available Spaces", ActionOf("spaces", "done"))
  /\ UNCHANGED <<input, uploadedFile, currentConversationId, isConfigured,
                 createPageCalls, historyVars>>

\* processFile: the upload succeeds with file, or fails and the failure
\* notice is added
processFile(failed, file) ==
  /\ IF failed
     THEN /\ Len(messages) < MaxPageMessages
          /\ messages' = addMessage(messages, "assistant", "Failed to upload", <<>>)
          /\ UNCHANGED uploadedFile
     ELSE /\ uploadedFile' = <<file>>
          /\ UNCHANGED messages
  /\ UNCHANGED <<input, isLoading, currentConversationId, isConfigured, sends,
                 inflight, createPageCalls, historyVars>>

\* the user types text into the textarea (disabled={!isConfigured || isLoading})
typeInput(text) ==
  /\ isConfigured /\ ~isLoading
  /\ input' = text
  /\ UNCHANGED <<messages, uploadedFile, isLoading, currentConversationId,
                 isConfigured, sends, inflight, createPageCalls, historyVars>>

\* the user saves Confluence settings
configure ==
  /\ ~isConfigured
  /\ isConfigured' = TRUE
  /\ UNCHANGED <<messages, input, uploadedFile, isLoading,
                 currentConversationId, sends, inflight, createPageCalls,
                 historyVars>>

\* one saveMessage request reaches POST /api/chat/messages
saveArrives(r) ==
  /\ r \in inflight
  /\ messagesPost(1, r.conversationId, r.role, r.content, r.status)
  /\ inflight' = inflight \ {r}
  /\ UNCHANGED <<messages, input, uploadedFile, isLoading,
                 currentConversationId, isConfigured, sends, createPageCalls>>

NextChat ==
  \/ handleSendClick /\ UNCHANGED <<callVars, sessionVars>>
  \/ \E i \in 1..MaxSends, failed \in BOOLEAN :
       createConversationReturns(i, failed) /\ UNCHANGED <<callVars, sessionVars>>
  \/ \E i \in 1..MaxSends, intent \in PageIntents :
       parseIntentReturns(i, intent) /\ UNCHANGED <<callVars, sessionVars>>
  \/ \E i \in 1..MaxSends, threw \in BOOLEAN, spaces \in SpaceLists :
       getSpacesReturns(i, threw, spaces) /\ UNCHANGED <<callVars, sessionVars>>
  \/ \E i \in 1..MaxSends, threw \in BOOLEAN :
       confluenceReturns(i, threw) /\ UNCHANGED <<callVars, sessionVars>>
  \/ \E failed \in BOOLEAN, file \in PageFiles :
       processFile(failed, file) /\ UNCHANGED <<callVars, sessionVars>>
  \/ \E text \in ChatTexts : typeInput(text) /\ UNCHANGED <<callVars, sessionVars>>
  \/ configure /\ UNCHANGED <<callVars, sessionVars>>
  \/ \E r \in inflight : saveArrives(r) /\ UNCHANGED <<callVars, sessionVars>>

SpecChat == Init /\ [][NextChat]_vars

\* the handleSend invocations that passed the entry guard and have not yet
\* reached setIsLoading(false)
InProgress == {i \in 1..Len(sends) : sends[i].pc # "done"}

\* C25: at most one send is in progress at a time: between the entry guard of
\* a handleSend invocation and its setIsLoading(false) no second invocation
\* passes the guard, and a new chat creates at most one conversation.
OneSendAtATime ==
  /\ Cardinality(InProgress) <= 1
  /\ rowIds.conversations <= 1

RECURSIVE repliesNeverLead(_, _, _)
\* in table t read from row k on, the assistant rows of conversation id
\* never outnumber the user rows read before them (lead = assistant rows
\* minus user rows so far)
repliesNeverLead(id, k, lead) ==
  IF k > Len(messagesTable) THEN TRUE
  ELSE IF messagesTable[k].conversation_id # id
  THEN repliesNeverLead(id, k + 1, lead)
  ELSE IF messagesTable[k].role = "user"
  THEN repliesNeverLead(id, k + 1, lead - 1)
  ELSE lead < 0 /\ repliesNeverLead(id, k + 1, lead + 1)

\* C24: within a conversation a user message is persisted before the
\* assistant reply it triggered: read back in storage order, every assistant
\* row has its user row before it.
UserMessageStoredBeforeReply ==
  \A c \in conversations : repliesNeverLead(c.id, 1, 0)

\* the action status of message k of the list, "" when it has no action
actionStatus(k) ==
  IF messages[k].action = <<>> THEN "" ELSE messages[k].action[1].status

\* C26: after a handleSend invocation has finished, isLoading is false (when
\* no other invocation is running) and the action message the invocation
\* added is not left in status "executing", also when the Confluence call
\* threw.
NoActionLeftExecuting ==
  /\ InProgress = {} => ~isLoading
  /\ \A i \in 1..Len(sends) :
       sends[i].pc = "done" /\ sends[i].assistantMsg # 0
         => actionStatus(sends[i].assistantMsg) # "executing"

\* C27: the final result of an action replaces the "executing" message added
\* for that action and no other message: a message that carries a finished
\* action (done or error) is the action message of some handleSend invocation.
ResultReplacesOwnMessage ==
  \A k \in 1..Len(messages) :
    actionStatus(k) \in {"done", "error"}
      => \E i \in 1..Len(sends) : sends[i].assistantMsg = k

\* C30: every create-page call the chat page issues for a create intent
\* passes a non-empty title, a non-empty content and a non-empty space key.
CreatePageArgumentsNonEmpty ==
  \A call \in createPageCalls :
    call.title # "" /\ call.content # "" /\ call.spaceKey # ""

====
